---- MODULE Spec2Model ----
(***************************************************************************)
(* Data Analyzer Pro (src/app.py, src/app_fixed.py): the base-name         *)
(* normalizer, the base-name index, the approval statistics and the        *)
(* session that a script run of the dashboard reads and writes.            *)
(*                                                                         *)
(* Text is a sequence of one-character strings.  A cell of a data frame is *)
(* a text or the missing value NaN; None is Python's None.                 *)
(***************************************************************************)
EXTENDS Integers, Sequences, FiniteSets, TLC

VARIABLES
    APP_PASSWORD,       \* the password given at launch, or None
    authenticated,      \* st.session_state.authenticated
    initialised,        \* the session has its dataset fields (df, ...)
    password_input,     \* the password box of the login page
    app_file,           \* the script the server runs: app.py or app_fixed.py
    KEYBOARD_AUTOMATION_AVAILABLE,  \* the automation libraries were imported
    test_card_search,   \* the search box of the Test Card page
    test_card_editor,   \* the rows checked in the table of the Test Card page
    selected_test_row_index,    \* st.session_state.selected_test_row_index
    df,                 \* st.session_state.df: the working frame
    original_df,        \* st.session_state.original_df: the canonical frame
    base_name_mapping,  \* st.session_state.base_name_mapping
    selected_bases,     \* st.session_state.selected_bases
    uploaded_file,      \* the file the sidebar offers to the script run
    sheet_selector,     \* the sheets chosen for a workbook of several sheets
    status_filter,      \* the 'Filter by status' radio
    page_nav,           \* the 'Navigate to' radio
    base_selector,      \* the 'Select bases to filter' multiselect
    data_search,        \* the search box of the Data View page
    search_input,       \* the search term of the Search page
    base1,              \* the first base name of the Combine page
    base2,              \* the second base name of the Combine page
    clicked,            \* the button whose click started the last script run
    view,               \* what the last script run displayed
    arg,                \* a direct call of one of the functions
    ret                 \* what the call returned

loginVars == <<APP_PASSWORD, authenticated, initialised, password_input>>
buildVars == <<app_file, KEYBOARD_AUTOMATION_AVAILABLE>>
sessionVars == <<df, original_df, base_name_mapping, selected_bases, uploaded_file,
                 sheet_selector, status_filter, page_nav, base_selector, data_search,
                 search_input, base1, base2, test_card_search, test_card_editor,
                 selected_test_row_index, clicked, view>>
vars == <<loginVars, buildVars, sessionVars, arg, ret>>

-----------------------------------------------------------------------------
(* Text primitives: the str methods the program calls.                     *)

LowerCase == <<"a","b","c","d","e","f","g","h","i","j","k","l","m",
               "n","o","p","q","r","s","t","u","v","w","x","y","z">>
UpperCase == <<"A","B","C","D","E","F","G","H","I","J","K","L","M",
               "N","O","P","Q","R","S","T","U","V","W","X","Y","Z">>

\* Python's None, and the missing value of a data frame cell: two symbols
\* that are not characters, so no text equals either.
None == <<"<None>">>
NaN == <<"<NaN>">>

\* the upper-case letter of each lower-case letter, and the reverse
ToUpper ==
    [c \in { LowerCase[i] : i \in 1..26 } |->
        UpperCase[CHOOSE i \in 1..26 : LowerCase[i] = c]]
ToLower ==
    [c \in { UpperCase[i] : i \in 1..26 } |->
        LowerCase[CHOOSE i \in 1..26 : UpperCase[i] = c]]

upper_char(c) == IF c \in DOMAIN ToUpper THEN ToUpper[c] ELSE c
lower_char(c) == IF c \in DOMAIN ToLower THEN ToLower[c] ELSE c

\* str.upper(), str.lower()
str_upper(s) == [i \in 1..Len(s) |-> upper_char(s[i])]
str_lower(s) == [i \in 1..Len(s) |-> lower_char(s[i])]

IsSpace(c) == c = " "

RECURSIVE str_lstrip(_)
str_lstrip(s) ==
    IF Len(s) > 0 /\ IsSpace(s[1]) THEN str_lstrip(Tail(s)) ELSE s

RECURSIVE str_rstrip(_)
str_rstrip(s) ==
    IF Len(s) > 0 /\ IsSpace(s[Len(s)])
    THEN str_rstrip(SubSeq(s, 1, Len(s) - 1))
    ELSE s

\* str.strip()
str_strip(s) == str_rstrip(str_lstrip(s))

\* sub occurs in s starting at position i
OccursAt(s, sub, i) ==
    /\ i >= 1
    /\ i + Len(sub) - 1 <= Len(s)
    /\ \A k \in 1..Len(sub) : s[i + k - 1] = sub[k]

\* sub in s
str_contains(s, sub) ==
    \E i \in 1..(Len(s) - Len(sub) + 1) : OccursAt(s, sub, i)

\* str.find(): the first position of sub in s, 0 when there is none
str_find(s, sub) ==
    IF str_contains(s, sub)
    THEN CHOOSE i \in 1..(Len(s) - Len(sub) + 1) :
            /\ OccursAt(s, sub, i)
            /\ \A j \in 1..(i - 1) : ~OccursAt(s, sub, j)
    ELSE 0

\* str.split(sep): cut at the occurrences of sep found from left to right,
\* each search starting after the previous occurrence
RECURSIVE str_split(_, _)
str_split(s, sep) ==
    LET i == str_find(s, sep) IN
    IF i = 0
    THEN <<s>>
    ELSE <<SubSeq(s, 1, i - 1)>> \o str_split(SubSeq(s, i + Len(sep), Len(s)), sep)

-----------------------------------------------------------------------------
(* The base-name normalizer.                                               *)

US_DELIM == <<"-","U","S","-">>
NAN_STR == <<"N","A","N">>
NONE_STR == <<"N","O","N","E">>

\* mutant of extract_base_name: the first segment after a delimiter is
\* returned
extract_base_name_first_segment(base_value) ==
    IF Len(base_value) = 0 \/ base_value = NAN_STR \/ base_value = NONE_STR
    THEN None
    ELSE LET base_str == str_upper(str_strip(base_value))
             parts == str_split(base_str, US_DELIM)
             base_name == str_strip(parts[IF Len(parts) > 1 THEN 2 ELSE 1])
         IN  IF str_contains(base_str, US_DELIM) /\ Len(parts) > 1
             THEN IF Len(base_name) > 0 THEN base_name ELSE None
             ELSE IF Len(base_str) > 0 THEN base_str ELSE None

\* mutant of extract_base_name: the last segment is returned untrimmed
extract_base_name_untrimmed(base_value) ==
    IF Len(base_value) = 0 \/ base_value = NAN_STR \/ base_value = NONE_STR
    THEN None
    ELSE LET base_str == str_upper(str_strip(base_value))
             parts == str_split(base_str, US_DELIM)
             base_name == parts[Len(parts)]
         IN  IF str_contains(base_str, US_DELIM) /\ Len(parts) > 1
             THEN IF Len(base_name) > 0 THEN base_name ELSE None
             ELSE IF Len(base_str) > 0 THEN base_str ELSE None

extract_base_name(base_value) ==
    IF Len(base_value) = 0 \/ base_value = NAN_STR \/ base_value = NONE_STR
    THEN None
    ELSE LET base_str == str_upper(str_strip(base_value))
             parts == str_split(base_str, US_DELIM)
             base_name == str_strip(parts[Len(parts)])
         IN  IF str_contains(base_str, US_DELIM) /\ Len(parts) > 1
             THEN IF Len(base_name) > 0 THEN base_name ELSE None
             ELSE IF Len(base_str) > 0 THEN base_str ELSE None

-----------------------------------------------------------------------------
(* Data frames: the columns, and the rows in order, each with its index    *)
(* label and one cell per column.  A session field that holds no frame     *)
(* holds NoneDF.                                                           *)

NoneDF == [none |-> TRUE, columns |-> <<>>, rows |-> <<>>]
DataFrame(columns, rows) == [none |-> FALSE, columns |-> columns, rows |-> rows]

\* x in a list
InList(x, list) == \E i \in 1..Len(list) : list[i] = x

\* len(data)
df_len(data) == Len(data.rows)

\* col in data.columns
in_columns(col, data) == InList(col, data.columns)

\* the position of the column named col
ColPos(data, col) ==
    CHOOSE i \in 1..Len(data.columns) :
        /\ data.columns[i] = col
        /\ \A j \in 1..(i - 1) : data.columns[j] # col

\* data[col]: the cells of a column
df_column(data, col) ==
    [i \in 1..Len(data.rows) |-> data.rows[i].cells[ColPos(data, col)]]

\* str(cell), as astype(str) applies it: the missing value reads 'nan'
astype_str(cell) == IF cell = NaN THEN <<"n","a","n">> ELSE cell

\* series.astype(str).str.lower() and series.astype(str).str.strip().str.upper()
series_str_lower(series) ==
    [i \in 1..Len(series) |-> str_lower(astype_str(series[i]))]
\* mutant of series_str_strip_upper: the cells are not trimmed
series_str_upper_only(series) ==
    [i \in 1..Len(series) |-> str_upper(astype_str(series[i]))]

series_str_strip_upper(series) ==
    [i \in 1..Len(series) |-> str_upper(str_strip(astype_str(series[i])))]

\* series.str.contains(pat, na=False) for a pattern without regex characters
series_contains(series, pat) ==
    [i \in 1..Len(series) |-> str_contains(series[i], pat)]

\* re.compile(pat) raises re.error; of the patterns with an error the model
\* has those with a '(' (there is no ')' among the characters typed) and
\* those that start with '*'
re_error(pat) ==
    \/ \E k \in 1..Len(pat) : pat[k] = "("
    \/ (Len(pat) > 0 /\ pat[1] = "*")

\* the pattern matches the text from position i on, ignoring case: '.' is
\* any character, every other character of the patterns typed is itself
re_match_at(pat, text, i) ==
    /\ i + Len(pat) - 1 <= Len(text)
    /\ \A k \in 1..Len(pat) :
          \/ pat[k] = "."
          \/ lower_char(pat[k]) = lower_char(text[i + k - 1])

\* re.search(pat, text, re.IGNORECASE) finds a match
re_search(pat, text) ==
    \E i \in 1..(Len(text) + 1) : re_match_at(pat, text, i)

\* series.astype(str).str.contains(pat, case=False, na=False): pat is a
\* regular expression
series_contains_regex(series, pat) ==
    [i \in 1..Len(series) |-> re_search(pat, astype_str(series[i]))]

\* frame.astype(str).apply(lambda x: x.str.contains(pat, case=False,
\* na=False)).any(axis=1)
any_column_contains(frame, pat) ==
    [i \in 1..Len(frame.rows) |->
        \E j \in 1..Len(frame.columns) :
            re_search(pat, astype_str(frame.rows[i].cells[j]))]

\* series.isin(values)
series_isin(series, values) ==
    [i \in 1..Len(series) |-> InList(series[i], values)]

mask_and(m1, m2) == [i \in 1..Len(m1) |-> m1[i] /\ m2[i]]
mask_or(m1, m2) == [i \in 1..Len(m1) |-> m1[i] \/ m2[i]]
mask_not(m) == [i \in 1..Len(m) |-> ~m[i]]

RECURSIVE MaskSelect(_, _)
MaskSelect(rows, mask) ==
    IF Len(rows) = 0
    THEN <<>>
    ELSE (IF Head(mask) THEN <<Head(rows)>> ELSE <<>>)
            \o MaskSelect(Tail(rows), Tail(mask))

\* data[mask]: the rows whose mask entry is true, index labels kept
bool_index(data, mask) == DataFrame(data.columns, MaskSelect(data.rows, mask))

\* mutant of series_unique: the values are not deduplicated
series_unique_keep_all(series) == series

\* series.unique(): the distinct values in first-seen order
RECURSIVE series_unique(_)
series_unique(series) ==
    IF Len(series) = 0
    THEN <<>>
    ELSE LET init == series_unique(SubSeq(series, 1, Len(series) - 1))
             last == series[Len(series)]
         IN  IF InList(last, init) THEN init ELSE Append(init, last)

-----------------------------------------------------------------------------
(* Dictionaries keep insertion order: a list of [key, value] entries.      *)

dict_has(d, k) == \E i \in 1..Len(d) : d[i].key = k
dict_pos(d, k) == CHOOSE i \in 1..Len(d) : d[i].key = k
\* d.get(k, default)
dict_get(d, k, default) == IF dict_has(d, k) THEN d[dict_pos(d, k)].value ELSE default
\* d[k] = v
dict_set(d, k, v) ==
    IF dict_has(d, k)
    THEN [d EXCEPT ![dict_pos(d, k)].value = v]
    ELSE Append(d, [key |-> k, value |-> v])
\* list(d.keys())
dict_keys(d) == [i \in 1..Len(d) |-> d[i].key]

-----------------------------------------------------------------------------
(* The approval statistics.                                                *)

APPROVED == <<"a","p","p","r","o","v","e","d">>
NOT_APPROVED == <<"n","o","t"," ">> \o APPROVED
NOT_IN_TIME == <<"n","o","t"," ","i","n"," ","t","i","m","e">>

ZeroStats == [approved |-> 0, not_approved |-> 0, not_in_time |-> 0, total |-> 0]

\* mutant of statistics_counts: 'approved' no longer excludes 'not approved'
statistics_counts_no_exclusion(data, checker_series) ==
    [approved |-> df_len(bool_index(data, series_contains(checker_series, APPROVED))),
     not_approved |-> df_len(bool_index(data, series_contains(checker_series, NOT_APPROVED))),
     not_in_time |-> df_len(bool_index(data, series_contains(checker_series, NOT_IN_TIME))),
     total |-> df_len(data)]

\* mutant of statistics_counts: 'not in time' is counted only on rows that
\* are neither approved nor not approved (exclusive buckets)
statistics_counts_exclusive(data, checker_series) ==
    [approved |-> df_len(bool_index(data,
                     mask_and(series_contains(checker_series, APPROVED),
                              mask_not(series_contains(checker_series, NOT_APPROVED))))),
     not_approved |-> df_len(bool_index(data, series_contains(checker_series, NOT_APPROVED))),
     not_in_time |-> df_len(bool_index(data,
                     mask_and(series_contains(checker_series, NOT_IN_TIME),
                              mask_not(series_contains(checker_series, APPROVED))))),
     total |-> df_len(data)]

\* the four counts of calculate_statistics, from the lower-cased status texts
statistics_counts(data, checker_series) ==
    [approved |-> df_len(bool_index(data,
                     mask_and(series_contains(checker_series, APPROVED),
                              mask_not(series_contains(checker_series, NOT_APPROVED))))),
     not_approved |-> df_len(bool_index(data, series_contains(checker_series, NOT_APPROVED))),
     not_in_time |-> df_len(bool_index(data, series_contains(checker_series, NOT_IN_TIME))),
     total |-> df_len(data)]

\* mutant of calculate_statistics: without the status column the counts are
\* zero but the total is still the number of rows
calculate_statistics_total_without_column(data, checker_col) ==
    IF data.none \/ df_len(data) = 0
    THEN ZeroStats
    ELSE IF ~in_columns(checker_col, data)
    THEN [ZeroStats EXCEPT !.total = df_len(data)]
    ELSE statistics_counts(data, series_str_lower(df_column(data, checker_col)))

calculate_statistics(data, checker_col) ==
    IF data.none \/ df_len(data) = 0
    THEN ZeroStats
    ELSE IF ~in_columns(checker_col, data)
    THEN ZeroStats
    ELSE statistics_counts(data, series_str_lower(df_column(data, checker_col)))

\* mutant of base_statistics_counts: 'approved' no longer excludes
\* 'not approved'
base_statistics_counts_no_exclusion(base_data, checker_series) ==
    [approved |-> df_len(bool_index(base_data, series_contains(checker_series, APPROVED))),
     not_approved |-> df_len(bool_index(base_data,
                     series_contains(checker_series, NOT_APPROVED))),
     not_in_time |-> df_len(bool_index(base_data,
                     series_contains(checker_series, NOT_IN_TIME))),
     total |-> df_len(base_data)]

\* the four counts of calculate_base_statistics over the rows of the group
base_statistics_counts(base_data, checker_series) ==
    [approved |-> df_len(bool_index(base_data,
                     mask_and(series_contains(checker_series, APPROVED),
                              mask_not(series_contains(checker_series, NOT_APPROVED))))),
     not_approved |-> df_len(bool_index(base_data,
                     series_contains(checker_series, NOT_APPROVED))),
     not_in_time |-> df_len(bool_index(base_data,
                     series_contains(checker_series, NOT_IN_TIME))),
     total |-> df_len(base_data)]

\* calculate_base_statistics once base_data, the rows of the group, is known
base_statistics_of(base_data, checker_col) ==
    IF df_len(base_data) = 0
    THEN ZeroStats
    ELSE base_statistics_counts(base_data,
             series_str_lower(df_column(base_data, checker_col)))

\* mutant of base_statistics_for: the counts are taken over all rows of the
\* data instead of the rows of the group
base_statistics_for_all_rows(data, original_values, base_col, checker_col) ==
    IF Len(original_values) = 0
    THEN ZeroStats
    ELSE base_statistics_of(data, checker_col)

\* calculate_base_statistics once original_values, the members of the
\* group, is known
base_statistics_for(data, original_values, base_col, checker_col) ==
    IF Len(original_values) = 0
    THEN ZeroStats
    ELSE base_statistics_of(
             bool_index(data, series_isin(
                 series_str_strip_upper(df_column(data, base_col)), original_values)),
             checker_col)

calculate_base_statistics(data, base_name, mapping, base_col, checker_col) ==
    IF data.none \/ df_len(data) = 0
    THEN ZeroStats
    ELSE IF base_col = None \/ ~in_columns(checker_col, data)
    THEN ZeroStats
    ELSE base_statistics_for(data, dict_get(mapping, base_name, <<>>), base_col, checker_col)

-----------------------------------------------------------------------------
(* The base-name index: the 'Update base mapping' block of a file load.    *)

BASE_NAMES == { <<"b","a","s","e">>, <<"b","a","s","e","s">>,
                <<"b","a","s","e"," ","n","a","m","e">>,
                <<"b","a","s","e","n","a","m","e">> }

\* for col in columns: if col.lower() in [...]: base_col = col; break
first_base_col(columns) ==
    IF \E i \in 1..Len(columns) : str_lower(columns[i]) \in BASE_NAMES
    THEN columns[CHOOSE i \in 1..Len(columns) :
                    /\ str_lower(columns[i]) \in BASE_NAMES
                    /\ \A j \in 1..(i - 1) : str_lower(columns[j]) \notin BASE_NAMES]
    ELSE None

\* [b for b in base_values.unique() if b and b != 'NAN' and b != 'NONE']
RECURSIVE drop_null_markers(_)
drop_null_markers(values) ==
    IF Len(values) = 0
    THEN <<>>
    ELSE LET b == Head(values) IN
         (IF Len(b) > 0 /\ b # NAN_STR /\ b # NONE_STR THEN <<b>> ELSE <<>>)
            \o drop_null_markers(Tail(values))

\* mutant of add_base_value: a value is filed under the text before the
\* first delimiter instead of its extracted name
add_base_value_by_prefix(mapping, base_value, extracted_name) ==
    IF Len(str_strip(str_split(base_value, US_DELIM)[1])) > 0
    THEN dict_set(mapping, str_strip(str_split(base_value, US_DELIM)[1]),
                  Append(dict_get(mapping, str_strip(str_split(base_value, US_DELIM)[1]), <<>>),
                         base_value))
    ELSE mapping

\* the body of the loop over unique_base_values: the list of the name is
\* created on first use and the value appended to it
add_base_value(mapping, base_value, extracted_name) ==
    IF extracted_name # None /\ Len(extracted_name) > 0
    THEN dict_set(mapping, extracted_name,
                  Append(dict_get(mapping, extracted_name, <<>>), base_value))
    ELSE mapping

\* the loop over unique_base_values, from the mapping built so far
RECURSIVE group_base_values(_, _)
group_base_values(mapping, values) ==
    IF Len(values) = 0
    THEN mapping
    ELSE group_base_values(
             add_base_value(mapping, Head(values), extract_base_name(Head(values))),
             Tail(values))

\* the mapping and the selection stored for a new mapping
stored_mapping(new_mapping) ==
    [base_name_mapping |-> new_mapping, selected_bases |-> dict_keys(new_mapping)]

\* the block once base_col is known
update_base_mapping_for(frame, base_col, mapping, selection) ==
    IF base_col = None
    THEN [base_name_mapping |-> mapping, selected_bases |-> selection]
    ELSE stored_mapping(group_base_values(<<>>,
             drop_null_markers(series_unique(
                 series_str_strip_upper(df_column(frame, base_col))))))

\* the mapping and the selection the session holds after the block has run
\* on the working frame
update_base_mapping(frame, mapping, selection) ==
    IF frame.none
    THEN [base_name_mapping |-> mapping, selected_bases |-> selection]
    ELSE update_base_mapping_for(frame, first_base_col(frame.columns), mapping, selection)

-----------------------------------------------------------------------------
(* A script run's column discovery and the Analytics page.                 *)

CHECKER_NAMES == { <<"c","h","e","c","k","e","r">>, <<"c","h","e","c","k">> }
CHECKER_FALLBACK == <<"C","h","e","c","k","e","r">>
CHECKER_FALLBACK_LOWER == <<"c","h","e","c","k","e","r">>

\* the last column whose lower-cased name is in names (the loop has no break)
last_col_in(columns, names) ==
    IF \E i \in 1..Len(columns) : str_lower(columns[i]) \in names
    THEN columns[CHOOSE i \in 1..Len(columns) :
                    /\ str_lower(columns[i]) \in names
                    /\ \A j \in (i + 1)..Len(columns) : str_lower(columns[j]) \notin names]
    ELSE None

\* checker_col after the loop: the fallback names when nothing matched
checker_col_or_fallback(found, frame) ==
    IF found # None
    THEN found
    ELSE IF in_columns(CHECKER_FALLBACK, frame)
         THEN CHECKER_FALLBACK
         ELSE CHECKER_FALLBACK_LOWER

\* 'Find columns': base_col and checker_col of a script run
find_columns(frame) ==
    [base_col |-> last_col_in(frame.columns, BASE_NAMES),
     checker_col |-> checker_col_or_fallback(last_col_in(frame.columns, CHECKER_NAMES),
                                             frame)]

\* the empty dict {} and stats.get(key, default)
EmptyDict == [k \in {} |-> 0]
stats_get(stats, key, default) ==
    IF key \in DOMAIN stats THEN stats[key] ELSE default

\* mutant of percentage: the division is made whatever the total is
percentage_unguarded(count, total, shown_total) ==
    [num |-> count * 100, den |-> total]

\* count / total * 100 if total > 0 else 0, as an exact fraction; a fraction
\* with den = 0 stands for the division by zero
percentage(count, total, shown_total) ==
    IF shown_total > 0 THEN [num |-> count * 100, den |-> total] ELSE [num |-> 0, den |-> 1]

\* the metrics of the Analytics page for the stats dict
analytics_view(stats) ==
    [page |-> "Analytics",
     approved |-> stats_get(stats, "approved", 0),
     not_approved |-> stats_get(stats, "not_approved", 0),
     not_in_time |-> stats_get(stats, "not_in_time", 0),
     total |-> stats_get(stats, "total", 0),
     approved_pct |-> percentage(stats_get(stats, "approved", 0),
                         stats_get(stats, "total", 1), stats_get(stats, "total", 0)),
     not_approved_pct |-> percentage(stats_get(stats, "not_approved", 0),
                         stats_get(stats, "total", 1), stats_get(stats, "total", 0)),
     not_in_time_pct |-> percentage(stats_get(stats, "not_in_time", 0),
                         stats_get(stats, "total", 1), stats_get(stats, "total", 0))]

\* what the Analytics page shows for the canonical frame
analytics_page(original, checker_col) ==
    analytics_view(IF in_columns(checker_col, original)
                   THEN calculate_statistics(original, checker_col)
                   ELSE EmptyDict)

-----------------------------------------------------------------------------
(* The session: one script run per user interaction.  A run executes the   *)
(* sidebar's file load block and then the page selected in the sidebar.    *)

NoFile == [none |-> TRUE, ext |-> "", sheets |-> <<>>]
\* an uploaded file: its lower-cased suffix and the frame of each sheet
\* (one frame for a CSV file)
File(ext, sheets) == [none |-> FALSE, ext |-> ext, sheets |-> sheets]

RECURSIVE ConcatColumns(_)
ConcatColumns(frames) ==
    IF Len(frames) = 0 THEN <<>> ELSE Head(frames).columns \o ConcatColumns(Tail(frames))

RECURSIVE ConcatRows(_, _)
ConcatRows(frames, columns) ==
    IF Len(frames) = 0
    THEN <<>>
    ELSE LET f == Head(frames) IN
         [i \in 1..Len(f.rows) |->
            [j \in 1..Len(columns) |->
                IF in_columns(columns[j], f)
                THEN f.rows[i].cells[ColPos(f, columns[j])]
                ELSE NaN]]
         \o ConcatRows(Tail(frames), columns)

\* ignore_index=True: the rows relabelled 0, 1, ...
reset_index(cells) ==
    [i \in 1..Len(cells) |-> [index |-> i - 1, cells |-> cells[i]]]

\* the concatenation once the union of the columns is known
concat_over(dfs_list, columns) ==
    DataFrame(columns, reset_index(ConcatRows(dfs_list, columns)))

\* pd.concat(dfs_list, ignore_index=True): the rows of the frames in order,
\* relabelled, over the union of their columns
pd_concat(dfs_list) == concat_over(dfs_list, series_unique(ConcatColumns(dfs_list)))

\* the frames of the selected sheets, in the order of the selection
read_sheets(file, selected_sheets) ==
    [i \in 1..Len(selected_sheets) |-> file.sheets[selected_sheets[i]]]

\* the session fields a script run reads and writes
Session(d, o, m, sb) ==
    [df |-> d, original_df |-> o, base_name_mapping |-> m, selected_bases |-> sb]

\* mutant of store_frame: a load replaces the working frame only, once the
\* session has a canonical frame
store_frame_keep_canonical(S, frame) ==
    [S EXCEPT !.df = frame, !.original_df = IF @.none THEN frame ELSE @]

\* st.session_state.df = frame; st.session_state.original_df = frame.copy()
store_frame(S, frame) == [S EXCEPT !.df = frame, !.original_df = frame]

\* the stores of the 'Update base mapping' block
store_mapping(S, updated) ==
    [S EXCEPT !.base_name_mapping = updated.base_name_mapping,
              !.selected_bases = updated.selected_bases]

\* the 'Update base mapping' block, which the Excel branch ends with
update_block(S) ==
    store_mapping(S, update_base_mapping(S.df, S.base_name_mapping, S.selected_bases))

\* 'if uploaded_file is not None: ...' of the sidebar
load_block(S, file, selected_sheets) ==
    IF file.none
    THEN S
    ELSE IF file.ext = ".csv"
    THEN store_frame(S, file.sheets[1])
    ELSE update_block(
             IF Len(file.sheets) > 1
             THEN IF Len(selected_sheets) > 0
                  THEN store_frame(S, pd_concat(read_sheets(file, selected_sheets)))
                  ELSE S
             ELSE store_frame(S, file.sheets[1]))

STATUS_FILTERS == {"Show All", "Approved", "Not Approved", "Not in Time"}

\* the status filter once the lower-cased status texts are known
status_filtered(data, filter, checker_series) ==
    IF filter = "Approved"
    THEN bool_index(data, mask_and(series_contains(checker_series, APPROVED),
                            mask_not(series_contains(checker_series, NOT_APPROVED))))
    ELSE IF filter = "Not Approved"
    THEN bool_index(data, series_contains(checker_series, NOT_APPROVED))
    ELSE IF filter = "Not in Time"
    THEN bool_index(data, series_contains(checker_series, NOT_IN_TIME))
    ELSE data

\* mutant of apply_status_filter: 'Show All' keeps the approved rows only
apply_status_filter_show_approved(data, filter, checker_col) ==
    IF in_columns(checker_col, data)
    THEN status_filtered(data, IF filter = "Show All" THEN "Approved" ELSE filter,
                         series_str_lower(df_column(data, checker_col)))
    ELSE data

\* 'Apply status filter' of a script run
apply_status_filter(data, filter, checker_col) ==
    IF filter # "Show All" /\ in_columns(checker_col, data)
    THEN status_filtered(data, filter, series_str_lower(df_column(data, checker_col)))
    ELSE data

\* all_original_values of Apply Filter: the member lists of the selected
\* names, one after the other
RECURSIVE collect_original_values(_, _)
collect_original_values(mapping, bases) ==
    IF Len(bases) = 0
    THEN <<>>
    ELSE dict_get(mapping, Head(bases), <<>>)
            \o collect_original_values(mapping, Tail(bases))

\* the table of the Test Card page while the page does not show it
NotShown == [rendered |-> FALSE, checked |-> {}]

\* the widgets after a run that showed the page: a widget the run did not
\* show loses its value; selector is the base multiselect after the run
widgets_of(W, page, selector) ==
    [W EXCEPT !.data_search = IF page = "Data View" THEN @ ELSE <<>>,
              !.search_input = IF page = "Search" THEN @ ELSE <<>>,
              !.base1 = IF page = "Combine" THEN @ ELSE <<>>,
              !.base2 = IF page = "Combine" THEN @ ELSE <<>>,
              !.test_card_search = IF page = "Test Card" THEN @ ELSE <<>>,
              !.test_card_editor = IF page = "Test Card" THEN @ ELSE NotShown,
              !.base_selector = selector]

\* the metrics of an expander of the Bases page and of the Combine page: the
\* counts and their percentages of total
base_metrics(stats) ==
    [total |-> stats_get(stats, "total", 0),
     approved |-> stats_get(stats, "approved", 0),
     not_approved |-> stats_get(stats, "not_approved", 0),
     not_in_time |-> stats_get(stats, "not_in_time", 0),
     approved_pct |-> percentage(stats_get(stats, "approved", 0),
                         stats_get(stats, "total", 0), stats_get(stats, "total", 0)),
     not_approved_pct |-> percentage(stats_get(stats, "not_approved", 0),
                         stats_get(stats, "total", 0), stats_get(stats, "total", 0)),
     not_in_time_pct |-> percentage(stats_get(stats, "not_in_time", 0),
                         stats_get(stats, "total", 0), stats_get(stats, "total", 0))]

\* the expanders of the Bases page: per displayed base its statistics over
\* the canonical frame, and its member list when it has several members
base_statistics_view(S, base_col, checker_col, display_bases) ==
    { [base_name |-> display_bases[i],
       stats |-> base_metrics(calculate_base_statistics(S.original_df, display_bases[i],
                     S.base_name_mapping, base_col, checker_col)),
       groups |-> IF Len(dict_get(S.base_name_mapping, display_bases[i], <<>>)) > 1
                  THEN dict_get(S.base_name_mapping, display_bases[i], <<>>)
                  ELSE <<>>] :
      i \in 1..Len(display_bases) }

\* the Bases page with its controls showing; widget is the base multiselect,
\* button is "Apply Filter", "Reset Filter" or "none"
bases_page(S, W, widget, base_col, checker_col, button) ==
    IF button = "Apply Filter" /\ Len(widget.value) > 0
    THEN [S |-> [S EXCEPT !.df =
                    bool_index(S.original_df,
                        series_isin(series_str_strip_upper(df_column(S.original_df, base_col)),
                                    collect_original_values(S.base_name_mapping,
                                                            widget.value)))],
          W |-> widgets_of(W, "Bases", widget),
          rerun |-> TRUE, view |-> [page |-> "Bases"]]
    ELSE IF button = "Reset Filter" /\ ~S.original_df.none
    THEN [S |-> [S EXCEPT !.df = S.original_df],
          W |-> widgets_of(W, "Bases", widget),
          rerun |-> TRUE, view |-> [page |-> "Bases"]]
    ELSE [S |-> S, W |-> widgets_of(W, "Bases", widget), rerun |-> FALSE,
          view |-> [page |-> "Bases",
                    available |-> TRUE,
                    warning |-> (button = "Apply Filter"),
                    stats |-> base_statistics_view(S, base_col, checker_col,
                                  IF Len(widget.value) > 0
                                  THEN widget.value
                                  ELSE dict_keys(S.base_name_mapping))]]

PAGES == {"Data View", "Analytics", "Search", "Combine", "Bases", "Test Card"}

\* the base multiselect while the Bases page does not show it, and once it
\* does: its options, and its value (default=all_bases when it appears or
\* its options change)
Unrendered == [rendered |-> FALSE, options |-> <<>>, value |-> <<>>]
render_base_selector(widget, all_bases) ==
    IF widget.rendered /\ widget.options = all_bases
    THEN widget
    ELSE [rendered |-> TRUE, options |-> all_bases, value |-> all_bases]

\* a page that leaves the session alone and does not show the base
\* multiselect
shows(S, W, page_view) ==
    [S |-> S, W |-> widgets_of(W, page_view.page, Unrendered), rerun |-> FALSE,
     view |-> page_view]

\* the Data View page: the search box narrows the status-filtered frame; a
\* frame without rows is not searched
data_view_page(S, W, filtered) ==
    IF Len(W.data_search) > 0 /\ df_len(filtered) > 0 /\ re_error(W.data_search)
    THEN shows(S, W, [page |-> "Data View", exception |-> "re.error"])
    ELSE shows(S, W, [page |-> "Data View", exception |-> "none",
                      shown |-> IF Len(W.data_search) > 0
                                THEN bool_index(filtered,
                                         any_column_contains(filtered, W.data_search))
                                ELSE filtered,
                      of_rows |-> df_len(S.original_df)])

\* mutant of search_page: the working frame is searched
search_page_working(S, W, button) ==
    IF button = "Search" /\ Len(W.search_input) > 0
    THEN IF df_len(S.df) > 0 /\ re_error(W.search_input)
         THEN shows(S, W, [page |-> "Search", exception |-> "re.error"])
         ELSE shows(S, W, [page |-> "Search", exception |-> "none", warning |-> FALSE,
                           searched |-> TRUE,
                           results |-> bool_index(S.df,
                                          any_column_contains(S.df, W.search_input))])
    ELSE shows(S, W, [page |-> "Search", exception |-> "none",
                      warning |-> (button = "Search"),
                      searched |-> FALSE, results |-> NoneDF])

\* the Search page; button is "Search" or another
search_page(S, W, button) ==
    IF button = "Search" /\ Len(W.search_input) > 0
    THEN IF df_len(S.original_df) > 0 /\ re_error(W.search_input)
         THEN shows(S, W, [page |-> "Search", exception |-> "re.error"])
         ELSE shows(S, W, [page |-> "Search", exception |-> "none", warning |-> FALSE,
                           searched |-> TRUE,
                           results |-> bool_index(S.original_df,
                                          any_column_contains(S.original_df,
                                                              W.search_input))])
    ELSE shows(S, W, [page |-> "Search", exception |-> "none",
                      warning |-> (button = "Search"),
                      searched |-> FALSE, results |-> NoneDF])

\* what the Combine page shows for the combined rows: the metrics and the
\* rows, or the note that there are none (info; no metrics are shown then)
combined_view(combined, checker_col) ==
    [page |-> "Combine", exception |-> "none", warning |-> FALSE,
     info |-> (df_len(combined) = 0), combined |-> combined,
     stats |-> IF df_len(combined) = 0
               THEN base_metrics(EmptyDict)
               ELSE base_metrics(calculate_statistics(combined, checker_col))]

\* the rows of the Combine page for the two upper-cased, trimmed names
combine_filter(original, base_col, base1_upper, base2_upper) ==
    bool_index(original,
        mask_or(series_contains_regex(df_column(original, base_col), base1_upper),
                series_contains_regex(df_column(original, base_col), base2_upper)))

\* mutant of combine_page: the names are not tested for being empty
combine_page_unchecked(S, W, cols, button) ==
    IF button # "Combine"
    THEN shows(S, W, [page |-> "Combine", exception |-> "none", warning |-> FALSE,
                      info |-> FALSE, combined |-> NoneDF, stats |-> base_metrics(EmptyDict)])
    ELSE IF cols.base_col = None
    THEN shows(S, W, [page |-> "Combine", exception |-> "none", warning |-> TRUE,
                      info |-> FALSE, combined |-> NoneDF, stats |-> base_metrics(EmptyDict)])
    ELSE shows(S, W, combined_view(
                        combine_filter(S.original_df, cols.base_col,
                                       str_strip(str_upper(W.base1)),
                                       str_strip(str_upper(W.base2))),
                        cols.checker_col))

\* the Combine page; button is "Combine" or another
combine_page(S, W, cols, button) ==
    IF button # "Combine"
    THEN shows(S, W, [page |-> "Combine", exception |-> "none", warning |-> FALSE,
                      info |-> FALSE, combined |-> NoneDF, stats |-> base_metrics(EmptyDict)])
    ELSE IF Len(W.base1) = 0 \/ Len(W.base2) = 0 \/ cols.base_col = None
    THEN shows(S, W, [page |-> "Combine", exception |-> "none", warning |-> TRUE,
                      info |-> FALSE, combined |-> NoneDF, stats |-> base_metrics(EmptyDict)])
    ELSE IF re_error(str_strip(str_upper(W.base1))) \/ re_error(str_strip(str_upper(W.base2)))
    THEN shows(S, W, [page |-> "Combine", exception |-> "re.error"])
    ELSE shows(S, W, combined_view(
                        combine_filter(S.original_df, cols.base_col,
                                       str_strip(str_upper(W.base1)),
                                       str_strip(str_upper(W.base2))),
                        cols.checker_col))

-----------------------------------------------------------------------------
(* The Test Card page: the row chosen in the table, the values taken from  *)
(* it and the fields of the other browser tab they are pasted into.        *)

\* the first column whose lower-cased name is in names (the loop breaks)
first_col_in(columns, names) ==
    IF \E i \in 1..Len(columns) : str_lower(columns[i]) \in names
    THEN columns[CHOOSE i \in 1..Len(columns) :
                    /\ str_lower(columns[i]) \in names
                    /\ \A j \in 1..(i - 1) : str_lower(columns[j]) \notin names]
    ELSE None

NUMBER_NAMES ==
    { <<"n","u","m","b","e","r">>,
      <<"c","a","r","d"," ","n","u","m","b","e","r">>,
      <<"c","a","r","d","n","u","m","b","e","r">>,
      <<"c","a","r","d">>,
      <<"n","u","m">> }
CARD_NUMBER_NAMES ==
    { <<"c","a","r","d"," ","n","u","m","b","e","r">>,
      <<"c","a","r","d","n","u","m","b","e","r">>,
      <<"c","a","r","d","_","n","u","m","b","e","r">> }
EXPIRE_NAMES ==
    { <<"e","x","p","i","r","e">>,
      <<"e","x","p","i","r","a","t","i","o","n">>,
      <<"e","x","p">>,
      <<"e","x","p","d","a","t","e">>,
      <<"e","x","p","_","d","a","t","e">> }
CVV_NAMES ==
    { <<"c","v","v">>,
      <<"c","v","c">>,
      <<"c","v","v","2">> }
ZIP_NAMES ==
    { <<"z","i","p">>,
      <<"z","i","p","c","o","d","e">>,
      <<"z","i","p","_","c","o","d","e">>,
      <<"p","o","s","t","a","l">>,
      <<"p","o","s","t","a","l","c","o","d","e">>,
      <<"p","o","s","t","a","l","_","c","o","d","e">> }

CARDHOLDER_NAME == <<"T","e","s","t"," ","U","s","e","r">>

\* str(selected_row[col]) when it is kept: not empty, not 'nan', not 'none'
\* in any letter case; nothing when there is no such column
value_of(frame, row, col) ==
    IF col = None
    THEN <<>>
    ELSE IF Len(astype_str(row.cells[ColPos(frame, col)])) > 0
            /\ str_lower(astype_str(row.cells[ColPos(frame, col)]))
                  \notin { <<"n","a","n">>, <<"n","o","n","e">> }
    THEN << astype_str(row.cells[ColPos(frame, col)]) >>
    ELSE <<>>

\* values_to_fill: the card number (from the number column when there is no
\* card number column), the expiration date, the CVV, the name, the zip code,
\* each appended when the row has it
values_to_fill(frame, row, number_col) ==
    value_of(frame, row,
             IF first_col_in(frame.columns, CARD_NUMBER_NAMES) # None
             THEN first_col_in(frame.columns, CARD_NUMBER_NAMES)
             ELSE number_col)
        \o value_of(frame, row, first_col_in(frame.columns, EXPIRE_NAMES))
        \o value_of(frame, row, first_col_in(frame.columns, CVV_NAMES))
        \o << CARDHOLDER_NAME >>
        \o value_of(frame, row, first_col_in(frame.columns, ZIP_NAMES))

\* the fields of the form in the order the Tab key visits them, as the
\* script counts them: two Tabs from the card number to the expiration date,
\* one Tab to each field after it
TAB_STOPS == <<"card number", "between", "expiration", "cvv", "cardholder name", "zip">>

\* the paste of a value into the field that has the focus after the given
\* number of Tabs from the card number field
paste(tabs, value) ==
    [field |-> IF tabs < Len(TAB_STOPS) THEN TAB_STOPS[tabs + 1] ELSE "beyond",
     value |-> value]

\* the filling of the form: values[0] after the click on the card number
\* field, values[1] two Tabs on, values[2] one Tab on, the remaining values
\* one Tab on each
fill_form(values) ==
    [i \in 1..Len(values) |-> paste(IF i = 1 THEN 0 ELSE i, values[i])]

\* selected_test_row_index = None (the rows are numbered from 0)
NoRow == -1

\* the rows of the table that are checked when the user has not touched it:
\* select_values
select_values(index, n) ==
    IF index # NoRow /\ index < n THEN {index} ELSE {}

\* the rows the table returns as checked
edited_rows(editor, index, n) ==
    IF editor.rendered THEN editor.checked ELSE select_values(index, n)

\* selected_rows.index[0]: the first checked row
first_checked(checked) ==
    CHOOSE i \in checked : \A j \in checked : i <= j

\* selected_test_row_index after the table was read, and whether the run
\* asks for a rerun
select_row(checked, index) ==
    IF Cardinality(checked) > 1
    THEN [index |-> first_checked(checked), rerun |-> TRUE]
    ELSE IF Cardinality(checked) = 1
    THEN [index |-> first_checked(checked), rerun |-> FALSE]
    ELSE IF index = NoRow
    THEN [index |-> 0, rerun |-> TRUE]
    ELSE [index |-> index, rerun |-> FALSE]

\* the part of the page under the table: the selected row, and after a press
\* of the Test Card button the values pasted into the form (the automation
\* calls are taken to succeed)
selected_row_view(display_df, index, number_col, button) ==
    IF index # NoRow /\ index < df_len(display_df)
    THEN [page |-> "Test Card", exception |-> "none", installed |-> TRUE,
          rows |-> df_len(display_df),
          selected_row |-> display_df.rows[index + 1],
          tested |-> (button = "Test Card"),
          filled |-> IF button = "Test Card"
                     THEN fill_form(values_to_fill(display_df, display_df.rows[index + 1],
                                                   number_col))
                     ELSE <<>>]
    ELSE [page |-> "Test Card", exception |-> "none", installed |-> TRUE,
          rows |-> df_len(display_df)]

\* the table of the page over display_df, with the rows it returns as checked
test_card_table(S, W, display_df, number_col, button, selection) ==
    IF selection.rerun
    THEN [S |-> S,
          W |-> [widgets_of(W, "Test Card", Unrendered)
                    EXCEPT !.selected_test_row_index = selection.index,
                           !.test_card_editor = NotShown],
          rerun |-> TRUE, view |-> [page |-> "Test Card"]]
    ELSE [S |-> S,
          W |-> [widgets_of(W, "Test Card", Unrendered)
                    EXCEPT !.selected_test_row_index = selection.index,
                           !.test_card_editor =
                               [rendered |-> TRUE,
                                checked |-> edited_rows(W.test_card_editor,
                                                W.selected_test_row_index,
                                                df_len(display_df))]],
          rerun |-> FALSE,
          view |-> selected_row_view(display_df, selection.index, number_col, button)]

\* display_df.reset_index(drop=True)
reset_frame_index(frame) ==
    DataFrame(frame.columns,
              [i \in 1..Len(frame.rows) |-> [index |-> i - 1, cells |-> frame.rows[i].cells]])

\* display_df: the search box narrows the status-filtered frame
test_card_display(filtered, search_term) ==
    reset_frame_index(IF Len(search_term) > 0
                      THEN bool_index(filtered, any_column_contains(filtered, search_term))
                      ELSE filtered)

\* the table, or the note that there are no rows
test_card_rows(S, W, display_df, number_col, button) ==
    IF df_len(display_df) = 0
    THEN shows(S, W, [page |-> "Test Card", exception |-> "none", installed |-> TRUE,
                      rows |-> 0])
    ELSE test_card_table(S, W, display_df, number_col, button,
             select_row(edited_rows(W.test_card_editor, W.selected_test_row_index,
                                    df_len(display_df)),
                        W.selected_test_row_index))

\* the Test Card page of app.py with the libraries imported
test_card_automation(S, W, filtered, button) ==
    IF Len(W.test_card_search) > 0 /\ df_len(filtered) > 0 /\ re_error(W.test_card_search)
    THEN shows(S, W, [page |-> "Test Card", exception |-> "re.error"])
    ELSE test_card_rows(S, W, test_card_display(filtered, W.test_card_search),
                        first_col_in(filtered.columns, NUMBER_NAMES), button)

\* the Test Card page: app_fixed.py reads SELENIUM_AVAILABLE, a name that
\* nothing defines; app.py shows the table when the libraries were imported
\* and the 'not installed' error otherwise
test_card_page(S, W, filtered, button) ==
    IF app_file = "app_fixed.py"
    THEN shows(S, W, [page |-> "Test Card", exception |-> "NameError"])
    ELSE IF ~KEYBOARD_AUTOMATION_AVAILABLE
    THEN shows(S, W, [page |-> "Test Card", exception |-> "none", installed |-> FALSE])
    ELSE test_card_automation(S, W, filtered, button)

\* the page routing of a script run, with the columns found
route_page(S, W, cols, button) ==
    IF W.page_nav = "Data View"
    THEN data_view_page(S, W, apply_status_filter(S.df, W.status_filter, cols.checker_col))
    ELSE IF W.page_nav = "Analytics"
    THEN shows(S, W, analytics_page(S.original_df, cols.checker_col))
    ELSE IF W.page_nav = "Search"
    THEN search_page(S, W, button)
    ELSE IF W.page_nav = "Combine"
    THEN combine_page(S, W, cols, button)
    ELSE IF W.page_nav = "Bases"
    THEN IF cols.base_col # None /\ Len(S.base_name_mapping) > 0
         THEN bases_page(S, W,
                  render_base_selector(W.base_selector, dict_keys(S.base_name_mapping)),
                  cols.base_col, cols.checker_col, button)
         ELSE shows(S, W, [page |-> "Bases", available |-> FALSE])
    ELSE test_card_page(S, W, apply_status_filter(S.df, W.status_filter, cols.checker_col),
                        button)

\* the main content of a script run
main_content(S, W, button) ==
    IF S.df.none \/ S.original_df.none
    THEN shows(S, W, [page |-> "Start"])
    ELSE route_page(S, W, find_columns(S.df), button)

\* what a finished run leaves: the session, the widgets, the display
finished(R) == [S |-> R.S, W |-> R.W, view |-> R.view]

\* the run that st.rerun() starts after a run that asked for it (no button
\* is pressed in that one)
rerun_after(R) ==
    IF R.rerun
    THEN finished(main_content(load_block(R.S, R.W.uploaded_file, R.W.sheet_selector),
                               R.W, "none"))
    ELSE finished(R)

\* a script run: the load block, the main content, and the rerun if any
script_run(S, W, button) ==
    rerun_after(main_content(load_block(S, W.uploaded_file, W.sheet_selector), W, button))

-----------------------------------------------------------------------------
(* Inputs of the normalizer: the texts made of at most MaxChunks pieces.   *)

MaxChunks == 3

NormChunks ==
    { US_DELIM, <<"-","u","s","-">>, <<"U","S">>, <<"-">>, <<" ">>,
      <<"U","S","-">>,
      <<"L","Y">>, <<"a">>, <<"2">>, NAN_STR, <<"n","a","n">>, NONE_STR,
      <<"N","o","n","e">> }

RECURSIVE Concat(_)
Concat(ss) == IF Len(ss) = 0 THEN <<>> ELSE Head(ss) \o Concat(Tail(ss))

NormInputs ==
    { Concat(cs) : cs \in UNION { [1..n -> NormChunks] : n \in 0..MaxChunks } }

\* the call harness: arg is the call to make, ret what it returned
NoCall == [fn |-> "none"]
NoReturn == [returned |-> FALSE]
Return(v) == [returned |-> TRUE, value |-> v]

\* the dataset fields as lines 219-226 set them, and the widgets as they
\* first appear
NoDataset ==
    /\ df = NoneDF
    /\ original_df = NoneDF
    /\ base_name_mapping = <<>>
    /\ selected_bases = <<>>
    /\ uploaded_file = NoFile
    /\ sheet_selector = <<>>
    /\ status_filter = "Show All"
    /\ page_nav = "Data View"
    /\ base_selector = Unrendered
    /\ data_search = <<>>
    /\ search_input = <<>>
    /\ base1 = <<>>
    /\ base2 = <<>>
    /\ test_card_search = <<>>
    /\ test_card_editor = NotShown
    /\ selected_test_row_index = NoRow
    /\ clicked = "none"

\* the session of app.py before any file is offered, launched without a
\* password on a server without the automation libraries: the first run has
\* passed the login gate, lines 219-226 have run and the start page is shown
SessionInit ==
    /\ APP_PASSWORD = None
    /\ authenticated = TRUE
    /\ initialised = TRUE
    /\ password_input = <<>>
    /\ app_file = "app.py"
    /\ KEYBOARD_AUTOMATION_AVAILABLE = FALSE
    /\ NoDataset
    /\ view = [page |-> "Start"]

InitNormalize ==
    /\ arg \in { [fn |-> "extract_base_name", base_value |-> x] : x \in NormInputs }
    /\ ret = NoReturn
    /\ SessionInit

CallExtractBaseName ==
    /\ arg.fn = "extract_base_name"
    /\ ~ret.returned
    /\ ret' = Return(extract_base_name(arg.base_value))
    /\ UNCHANGED <<arg, loginVars, buildVars, sessionVars>>

NextNormalize == CallExtractBaseName

SpecNormalize == InitNormalize /\ [][NextNormalize]_vars

-----------------------------------------------------------------------------
(* Frames for the calls: a layout gives the columns and, per column, the   *)
(* cells a row may hold; a frame has at most a bounded number of rows,     *)
(* labelled 0, 1, ... as a file load labels them.                          *)

T_Base == <<"B","a","s","e">>
T_Checker == <<"C","h","e","c","k","e","r">>
T_Name == <<"N","a","m","e">>
T_Status == <<"S","t","a","t","u","s">>
T_BASES == <<"B","A","S","E","S">>
T_base_name == <<"b","a","s","e"," ","n","a","m","e">>

RowsOf(layout) ==
    { r \in [1..Len(layout.columns) -> UNION { layout.pools[i] : i \in 1..Len(layout.pools) }] :
        \A i \in 1..Len(layout.columns) : r[i] \in layout.pools[i] }

FramesOf(layout, maxrows) ==
    UNION { { DataFrame(layout.columns, [i \in 1..n |-> [index |-> i - 1, cells |-> rs[i]]]) :
                rs \in [1..n -> RowsOf(layout)] } : n \in 0..maxrows }

MaxIndexRows == 3

IndexBaseCells ==
    { <<"1","-","U","S","-","A","A">>, <<"2","-","u","s","-","a","a"," ">>, <<" ","x">>, <<"X">>, <<"A","-","U","S","-">>, <<"N","o","n","e">>, <<>>, NaN }

IndexLayouts ==
    { [columns |-> <<T_Base, T_Checker>>, pools |-> <<IndexBaseCells, {APPROVED}>>],
      [columns |-> <<T_Name, T_Checker>>, pools |-> <<{<<"x">>}, {APPROVED}>>],
      [columns |-> <<T_BASES, T_base_name>>,
       pools |-> <<{<<"1","-","U","S","-","A","A">>, <<"X">>}, {<<"2","-","U","S","-","B","B">>, NaN}>>] }

IndexFrames == UNION { FramesOf(l, MaxIndexRows) : l \in IndexLayouts }

\* a mapping left by an earlier load
StaleMapping == <<[key |-> <<"Z","Z">>, value |-> <<<<"9","-","U","S","-","Z","Z">>>>]>>

InitIndex ==
    /\ arg \in { [fn |-> "update_base_mapping", df |-> d,
                  base_name_mapping |-> m, selected_bases |-> dict_keys(m)] :
                 d \in IndexFrames, m \in {<<>>, StaleMapping} }
    /\ ret = NoReturn
    /\ SessionInit

CallUpdateBaseMapping ==
    /\ arg.fn = "update_base_mapping"
    /\ ~ret.returned
    /\ ret' = Return(update_base_mapping(arg.df, arg.base_name_mapping, arg.selected_bases))
    /\ UNCHANGED <<arg, loginVars, buildVars, sessionVars>>

NextIndex == CallUpdateBaseMapping

SpecIndex == InitIndex /\ [][NextIndex]_vars

MaxStatRows == 2

StatBaseCells == { <<"1","-","U","S","-","A","A">>, <<"x"," ">> }
StatusCells ==
    { <<"A","p","p","r","o","v","e","d">>, <<"N","o","t"," ","A","p","p","r","o","v","e","d">>, <<"A","p","p","r","o","v","e","d"," ","b","u","t"," ","n","o","t"," ","i","n"," ","t","i","m","e">>,
      <<"N","O","T"," ","A","P","P","R","O","V","E","D",","," ","N","o","t"," ","I","n"," ","T","i","m","e">>, <<"P","e","n","d","i","n","g">>, NaN }

StatLayouts ==
    { [columns |-> <<T_Base, T_Checker>>, pools |-> <<StatBaseCells, StatusCells>>],
      [columns |-> <<T_Base, T_Status>>, pools |-> <<StatBaseCells, {<<"A","p","p","r","o","v","e","d">>, <<"N","o","t"," ","A","p","p","r","o","v","e","d">>}>>] }

StatFrames == UNION { FramesOf(l, MaxStatRows) : l \in StatLayouts } \cup {NoneDF}

MappingOf(d) ==
    IF d.none THEN <<>> ELSE update_base_mapping(d, <<>>, <<>>).base_name_mapping

StatCalls(d) ==
    { [fn |-> "calculate_statistics", data |-> d, checker_col |-> c] :
        c \in {T_Checker, CHECKER_FALLBACK_LOWER} }
    \cup
    { [fn |-> "calculate_base_statistics", data |-> d, base_name |-> b,
       base_name_mapping |-> MappingOf(d), base_col |-> T_Base, checker_col |-> T_Checker] :
        b \in {<<"A","A">>, <<"X">>, <<"Z","Z">>} }
    \cup
    { [fn |-> "calculate_base_statistics", data |-> d, base_name |-> <<"A","A">>,
       base_name_mapping |-> MappingOf(d), base_col |-> bc, checker_col |-> cc] :
        bc \in {None}, cc \in {T_Checker} }
    \cup
    { [fn |-> "calculate_base_statistics", data |-> d, base_name |-> <<"A","A">>,
       base_name_mapping |-> MappingOf(d), base_col |-> bc, checker_col |-> cc] :
        bc \in {T_Base}, cc \in {CHECKER_FALLBACK_LOWER} }
    \cup
    (IF d.none THEN {} ELSE { [fn |-> "analytics_page", original_df |-> d] })

InitStats ==
    /\ arg \in UNION { StatCalls(d) : d \in StatFrames }
    /\ ret = NoReturn
    /\ SessionInit

CallCalculateStatistics ==
    /\ arg.fn = "calculate_statistics"
    /\ ~ret.returned
    /\ ret' = Return(calculate_statistics(arg.data, arg.checker_col))
    /\ UNCHANGED <<arg, loginVars, buildVars, sessionVars>>

CallCalculateBaseStatistics ==
    /\ arg.fn = "calculate_base_statistics"
    /\ ~ret.returned
    /\ ret' = Return(calculate_base_statistics(arg.data, arg.base_name,
                        arg.base_name_mapping, arg.base_col, arg.checker_col))
    /\ UNCHANGED <<arg, loginVars, buildVars, sessionVars>>

\* one script run on the Analytics page with original_df as the canonical
\* and the working frame
RenderAnalytics ==
    /\ arg.fn = "analytics_page"
    /\ ~ret.returned
    /\ ret' = Return(analytics_page(arg.original_df,
                                    find_columns(arg.original_df).checker_col))
    /\ UNCHANGED <<arg, loginVars, buildVars, sessionVars>>

NextStats ==
    \/ CallCalculateStatistics
    \/ CallCalculateBaseStatistics
    \/ RenderAnalytics

SpecStats == InitStats /\ [][NextStats]_vars

-----------------------------------------------------------------------------
(* The session specification: the files a user may offer, and one action   *)
(* per interaction, each a whole script run.                               *)

Row(i, cells) == [index |-> i, cells |-> cells]

CsvThreeRows ==
    File(".csv", << DataFrame(<<T_Base, T_Checker>>,
        << Row(0, <<<<"1","-","U","S","-","A","A">>, <<"a","p","p","r","o","v","e","d">>>>),
           Row(1, <<<<"2","-","U","S","-","A","A">>, <<"n","o","t"," ","a","p","p","r","o","v","e","d">>>>),
           Row(2, <<<<"X">>, <<"n","o","t"," ","i","n"," ","t","i","m","e">>>>) >>) >>)

XlsxOneSheet ==
    File(".xlsx", << DataFrame(<<T_Base, T_Checker>>,
        << Row(0, <<<<"1","2","3","-","U","S","-","L","Y">>, <<"A","p","p","r","o","v","e","d">>>>),
           Row(1, <<<<"4","5","6","-","u","s","-","l","y"," ">>, <<"N","o","t"," ","A","p","p","r","o","v","e","d">>>>),
           Row(2, <<<<"O","T","H","E","R">>, <<"A","p","p","r","o","v","e","d">>>>) >>) >>)

XlsxNoBase ==
    File(".xlsx", << DataFrame(<<T_Name, T_Checker>>,
        << Row(0, <<<<"x">>, <<"A","p","p","r","o","v","e","d">>>>) >>) >>)

CsvNoBaseNoStatus ==
    File(".csv", << DataFrame(<<T_Name, T_Status>>,
        << Row(0, <<<<"x">>, <<"A","p","p","r","o","v","e","d">>>>),
           Row(1, <<<<"y">>, <<"P","e","n","d","i","n","g">>>>) >>) >>)

XlsxNoRows ==
    File(".xlsx", << DataFrame(<<T_Base, T_Checker>>, <<>>) >>)

XlsxTwoSheets ==
    File(".xlsx", << DataFrame(<<T_Base, T_Checker>>,
                        << Row(0, <<<<"1","-","U","S","-","A","A">>, <<"A","p","p","r","o","v","e","d">>>>) >>),
                     DataFrame(<<T_Base, T_Checker>>,
                        << Row(0, <<<<" ","x">>, <<"A","p","p","r","o","v","e","d"," ","b","u","t"," ","n","o","t"," ","i","n"," ","t","i","m","e">>>>),
                           Row(1, <<NaN, <<"P","e","n","d","i","n","g">>>>) >>) >>)

XlsTwoBaseColumns ==
    File(".xls", << DataFrame(<<T_BASES, T_Base, <<"c","h","e","c","k">>>>,
        << Row(0, <<<<"1","-","U","S","-","A","A">>, <<"2","-","U","S","-","B","B">>, <<"a","p","p","r","o","v","e","d">>>>),
           Row(1, <<<<"X">>, <<"2","-","U","S","-","B","B">>, <<"n","o","t"," ","a","p","p","r","o","v","e","d">>>>) >>) >>)

FileLibrary ==
    { CsvThreeRows, XlsxOneSheet, XlsxNoBase, CsvNoBaseNoStatus, XlsxNoRows,
      XlsxTwoSheets, XlsTwoBaseColumns }

\* the lists without repetition over a set
ListsOver(S) ==
    { l \in UNION { [1..n -> S] : n \in 0..Cardinality(S) } :
        \A i, j \in 1..Len(l) : i # j => l[i] # l[j] }

\* default=sheet_names of the sheet multiselect
DefaultSheets(file) ==
    IF ~file.none /\ file.ext # ".csv" /\ Len(file.sheets) > 1
    THEN [i \in 1..Len(file.sheets) |-> i]
    ELSE <<>>

Widgets ==
    [uploaded_file |-> uploaded_file, sheet_selector |-> sheet_selector,
     status_filter |-> status_filter, page_nav |-> page_nav,
     base_selector |-> base_selector, data_search |-> data_search,
     search_input |-> search_input, base1 |-> base1, base2 |-> base2,
     test_card_search |-> test_card_search, test_card_editor |-> test_card_editor,
     selected_test_row_index |-> selected_test_row_index]

\* the script runs past the login gate from session S with widget values W
\* and the button, if any; pressed is the button the user clicked
RunFrom(S, W, button, pressed) ==
    \E R \in { script_run(S, W, button) } :
        /\ df' = R.S.df
        /\ original_df' = R.S.original_df
        /\ base_name_mapping' = R.S.base_name_mapping
        /\ selected_bases' = R.S.selected_bases
        /\ uploaded_file' = R.W.uploaded_file
        /\ sheet_selector' = R.W.sheet_selector
        /\ status_filter' = R.W.status_filter
        /\ page_nav' = R.W.page_nav
        /\ base_selector' = R.W.base_selector
        /\ data_search' = R.W.data_search
        /\ search_input' = R.W.search_input
        /\ base1' = R.W.base1
        /\ base2' = R.W.base2
        /\ test_card_search' = R.W.test_card_search
        /\ test_card_editor' = R.W.test_card_editor
        /\ selected_test_row_index' = R.W.selected_test_row_index
        /\ clicked' = pressed
        /\ view' = R.view
        /\ UNCHANGED <<buildVars, arg, ret>>

\* a script run of an authenticated session ('if not authenticated' is
\* skipped) with widget values W and the button pressed, if any
Run(W, pressed) ==
    /\ authenticated
    /\ RunFrom(Session(df, original_df, base_name_mapping, selected_bases), W, pressed,
               pressed)
    /\ UNCHANGED loginVars

\* the Bases page shows its controls
BasesAvailable ==
    /\ page_nav = "Bases"
    /\ ~df.none
    /\ ~original_df.none
    /\ find_columns(df).base_col # None
    /\ Len(base_name_mapping) > 0

Init ==
    /\ SessionInit
    /\ arg = NoCall
    /\ ret = NoReturn

\* the user offers one of the files, or takes the offered file away
Upload(files) ==
    \E f \in files \cup {NoFile} :
        /\ f # uploaded_file
        /\ Run([Widgets EXCEPT !.uploaded_file = f,
                               !.sheet_selector = DefaultSheets(f),
                               !.test_card_editor = NotShown], "none")

UploadFile == Upload(FileLibrary)

\* the user changes the sheets of a workbook of several sheets
SelectSheets ==
    /\ ~uploaded_file.none
    /\ uploaded_file.ext # ".csv"
    /\ Len(uploaded_file.sheets) > 1
    /\ \E sel \in ListsOver(1..Len(uploaded_file.sheets)) :
        /\ sel # sheet_selector
        /\ Run([Widgets EXCEPT !.sheet_selector = sel], "none")

SetStatusFilter ==
    \E f \in STATUS_FILTERS :
        /\ f # status_filter
        /\ Run([Widgets EXCEPT !.status_filter = f], "none")

Navigate ==
    \E p \in PAGES :
        /\ p # page_nav
        /\ Run([Widgets EXCEPT !.page_nav = p], "none")

\* the user changes the selection of the base multiselect
SelectBases ==
    /\ BasesAvailable
    /\ base_selector.rendered
    /\ \E sel \in ListsOver({ base_selector.options[i] : i \in 1..Len(base_selector.options) }) :
        /\ sel # base_selector.value
        /\ Run([Widgets EXCEPT !.base_selector.value = sel], "none")

ApplyFilter ==
    /\ BasesAvailable
    /\ Run(Widgets, "Apply Filter")

ResetFilter ==
    /\ BasesAvailable
    /\ Run(Widgets, "Reset Filter")

\* the texts a user types into the search boxes, and the names typed on the
\* Combine page
SEARCH_TERMS == { <<"a","a">>, <<".">>, <<"(">> }
BASE_FRAGMENTS == { <<"a">>, <<" ","x">>, <<".">> }

\* the user types into the search box of the Data View page, or clears it
SetDataSearch ==
    /\ view.page = "Data View"
    /\ \E t \in SEARCH_TERMS \cup {<<>>} :
        /\ t # data_search
        /\ Run([Widgets EXCEPT !.data_search = t], "none")

\* the user types the term of the Search page
SetSearchInput ==
    /\ view.page = "Search"
    /\ \E t \in SEARCH_TERMS \cup {<<>>} :
        /\ t # search_input
        /\ Run([Widgets EXCEPT !.search_input = t], "none")

Search ==
    /\ view.page = "Search"
    /\ Run(Widgets, "Search")

\* the user types the first or the second name of the Combine page
SetBase1 ==
    /\ view.page = "Combine"
    /\ \E t \in BASE_FRAGMENTS \cup {<<>>} :
        /\ t # base1
        /\ Run([Widgets EXCEPT !.base1 = t], "none")

SetBase2 ==
    /\ view.page = "Combine"
    /\ \E t \in BASE_FRAGMENTS \cup {<<>>} :
        /\ t # base2
        /\ Run([Widgets EXCEPT !.base2 = t], "none")

Combine ==
    /\ view.page = "Combine"
    /\ Run(Widgets, "Combine")

Next ==
    \/ UploadFile
    \/ SelectSheets
    \/ SetStatusFilter
    \/ Navigate
    \/ SelectBases
    \/ ApplyFilter
    \/ ResetFilter
    \/ SetDataSearch
    \/ SetSearchInput
    \/ Search
    \/ SetBase1
    \/ SetBase2
    \/ Combine

Spec == Init /\ [][Next]_vars

-----------------------------------------------------------------------------
(* The Test Card specification: the session of app.py with and without    *)
(* the automation libraries and of app_fixed.py, over files of card data. *)

T_CardNumber == <<"C","a","r","d"," ","N","u","m","b","e","r">>
T_Number == <<"N","u","m","b","e","r">>
T_Expire == <<"E","x","p","i","r","e">>
T_CVV == <<"C","V","V">>
T_Zip == <<"Z","i","p">>

V_Card == <<"4","1","1","1">>
V_Expire == <<"1","2","/","3","0">>
V_CVV == <<"1","2","3">>
V_Zip == <<"9","0","2","1","0">>

\* a column of a card file: it holds its value ("text"), it holds no value
\* in the row ("missing"), or the file does not have it ("absent"); for the
\* card number, "number" is a file with a Number column in its place
CARD_CHOICES == {"text", "missing", "absent"}

ColumnOf(name, choice) == IF choice = "absent" THEN <<>> ELSE <<name>>
CellOf(text, choice) ==
    IF choice = "absent" THEN <<>> ELSE IF choice = "missing" THEN <<NaN>> ELSE <<text>>

CardFrame(c, e, v, z) ==
    DataFrame(<<T_Base>> \o ColumnOf(IF c = "number" THEN T_Number ELSE T_CardNumber, c)
                  \o ColumnOf(T_Expire, e) \o ColumnOf(T_CVV, v) \o ColumnOf(T_Zip, z),
              << Row(0, << <<"X">> >> \o CellOf(V_Card, IF c = "number" THEN "text" ELSE c)
                          \o CellOf(V_Expire, e) \o CellOf(V_CVV, v) \o CellOf(V_Zip, z)) >>)

CsvTwoCards ==
    File(".csv", << DataFrame(<<T_CardNumber, T_Expire, T_CVV, T_Zip>>,
        << Row(0, <<V_Card, V_Expire, V_CVV, V_Zip>>),
           Row(1, <<V_Card, NaN, V_CVV, V_Zip>>) >>) >>)

CARD_FILES ==
    { File(".csv", << CardFrame(c, e, v, z) >>) :
        c \in CARD_CHOICES \cup {"number"}, e \in CARD_CHOICES,
        v \in CARD_CHOICES, z \in CARD_CHOICES }
    \cup { CsvTwoCards }

\* app.py with the automation libraries, app.py without them (the import
\* failed), app_fixed.py
BUILDS ==
    { [app_file |-> "app.py", available |-> TRUE],
      [app_file |-> "app.py", available |-> FALSE],
      [app_file |-> "app_fixed.py", available |-> FALSE] }

InitCard ==
    /\ APP_PASSWORD = None
    /\ authenticated = TRUE
    /\ initialised = TRUE
    /\ password_input = <<>>
    /\ \E b \in BUILDS :
        /\ app_file = b.app_file
        /\ KEYBOARD_AUTOMATION_AVAILABLE = b.available
    /\ NoDataset
    /\ view = [page |-> "Start"]
    /\ arg = NoCall
    /\ ret = NoReturn

UploadCardFile == Upload(CARD_FILES)

\* the Test Card page shows its search box
TestCardShown ==
    /\ view.page = "Test Card"
    /\ app_file = "app.py"
    /\ KEYBOARD_AUTOMATION_AVAILABLE

\* the user types into the search box of the Test Card page, or clears it
SetTestCardSearch ==
    /\ TestCardShown
    /\ \E t \in SEARCH_TERMS \cup {<<>>} :
        /\ t # test_card_search
        /\ Run([Widgets EXCEPT !.test_card_search = t,
                               !.test_card_editor = NotShown], "none")

\* the user checks or unchecks the box of a row of the table
SelectTestRow ==
    /\ TestCardShown
    /\ test_card_editor.rendered
    /\ \E k \in 0..(view.rows - 1) :
        Run([Widgets EXCEPT !.test_card_editor.checked =
                                IF k \in @ THEN @ \ {k} ELSE @ \cup {k}], "none")

\* the user presses the Test Card button under the selected row
TestCard ==
    /\ TestCardShown
    /\ "selected_row" \in DOMAIN view
    /\ Run(Widgets, "Test Card")

NextCard ==
    \/ UploadCardFile
    \/ Navigate
    \/ SetTestCardSearch
    \/ SelectTestRow
    \/ TestCard

SpecCard == InitCard /\ [][NextCard]_vars

-----------------------------------------------------------------------------
(* The login gate: the session of a server launched with or without a     *)
(* password, from the connection of the browser on.                        *)

\* mutant of check_password: the letter case of the input is ignored
check_password_ignore_case(input, app_password) ==
    IF app_password = None THEN TRUE ELSE str_lower(input) = str_lower(app_password)

\* check_password(password_input)
check_password(input, app_password) ==
    IF app_password = None THEN TRUE ELSE input = app_password

\* what the login page shows: the error of a failed Login, the exception of
\* Clear (it assigns the key of a widget that the run has already shown)
login_page(button) ==
    [page |-> "Login", error |-> (button = "Login"),
     exception |-> IF button = "Clear" THEN "StreamlitAPIException" ELSE "none"]

\* 'if not st.session_state.authenticated: ...': whether the session is
\* authenticated after the block, and whether the run goes on past it
\* ("pass"), starts again (st.rerun()) or ends there (st.stop())
login_gate(auth, app_password, input, button) ==
    IF auth \/ app_password = None
    THEN [authenticated |-> TRUE, outcome |-> "pass"]
    ELSE IF button = "Login" /\ check_password(input, app_password)
    THEN [authenticated |-> TRUE, outcome |-> "rerun"]
    ELSE [authenticated |-> FALSE, outcome |-> "stop"]

\* a script run of a session that is not yet authenticated: it ends at the
\* gate, or it goes on (in this run or in the rerun, no button pressed) to
\* lines 219-226, the sidebar and the main content
GateRun(input, pressed) ==
    \E G \in { login_gate(authenticated, APP_PASSWORD, input, pressed) } :
        /\ authenticated' = G.authenticated
        /\ APP_PASSWORD' = APP_PASSWORD
        /\ IF G.outcome = "stop"
           THEN /\ password_input' = input
                /\ initialised' = initialised
                /\ clicked' = pressed
                /\ view' = login_page(pressed)
                /\ UNCHANGED <<df, original_df, base_name_mapping, selected_bases,
                               uploaded_file, sheet_selector, status_filter, page_nav,
                               base_selector, data_search, search_input, base1, base2,
                               test_card_search, test_card_editor,
                               selected_test_row_index, buildVars, arg, ret>>
           ELSE /\ password_input' = <<>>
                /\ initialised' = TRUE
                /\ RunFrom(Session(NoneDF, NoneDF, <<>>, <<>>), Widgets, "none", pressed)

\* the passwords a server is launched with (None: neither --password= nor
\* DATA_ANALYZER_PASSWORD), and the texts a user types into the password box
LAUNCH_PASSWORDS == { None, <<"p","w">> }
PASSWORD_INPUTS == { <<"p","w">>, <<"P","w">>, <<"p","w"," ">>, <<"p">> }

InitLogin ==
    /\ APP_PASSWORD \in LAUNCH_PASSWORDS
    /\ authenticated = FALSE
    /\ initialised = FALSE
    /\ password_input = <<>>
    /\ app_file = "app.py"
    /\ KEYBOARD_AUTOMATION_AVAILABLE = FALSE
    /\ NoDataset
    /\ view = [page |-> "Connecting"]
    /\ arg = NoCall
    /\ ret = NoReturn

\* the browser connects: the first script run
Connect ==
    /\ view.page = "Connecting"
    /\ GateRun(<<>>, "none")

\* the user types into the password box, or empties it
TypePassword ==
    /\ view.page = "Login"
    /\ \E t \in PASSWORD_INPUTS \cup {<<>>} :
        /\ t # password_input
        /\ GateRun(t, "none")

Login ==
    /\ view.page = "Login"
    /\ GateRun(password_input, "Login")

ClearPassword ==
    /\ view.page = "Login"
    /\ GateRun(password_input, "Clear")

NextLogin ==
    \/ Connect
    \/ TypePassword
    \/ Login
    \/ ClearPassword
    \/ Next

SpecLogin == InitLogin /\ [][NextLogin]_vars

-----------------------------------------------------------------------------
(* Properties of the normalizer, checked under SpecNormalize.              *)

\* the null-markers: the empty text, and 'nan' and 'none' in any letter case
IsNullMarker(x) ==
    \/ Len(x) = 0
    \/ str_lower(x) = <<"n","a","n">>
    \/ str_lower(x) = <<"n","o","n","e">>

\* a text as a result: absent when it is empty
OptText(t) == IF Len(t) > 0 THEN t ELSE None

\* the text after the delimiter that starts at position i
AfterDelim(t, i) == SubSeq(t, i + Len(US_DELIM), Len(t))

\* the position of the last occurrence of the delimiter in t
LastOccurrence(t) ==
    CHOOSE i \in 1..Len(t) :
        /\ OccursAt(t, US_DELIM, i)
        /\ \A j \in (i + 1)..Len(t) : ~OccursAt(t, US_DELIM, j)

\* an occurrence of the delimiter at position p counts when it does not
\* overlap a counted occurrence to its left
RECURSIVE Counted(_, _)
Counted(t, p) ==
    /\ OccursAt(t, US_DELIM, p)
    /\ \A q \in (p - Len(US_DELIM) + 1)..(p - 1) : ~Counted(t, q)

LastCounted(t) ==
    CHOOSE i \in 1..Len(t) :
        /\ Counted(t, i)
        /\ \A j \in (i + 1)..Len(t) : ~Counted(t, j)

Returned == arg.fn = "extract_base_name" /\ ret.returned

\* C1 as stated: for an input that is not a null-marker the result is the
\* trimmed text after the LAST occurrence of '-US-' in the trimmed,
\* upper-cased input (absent when empty), or the whole trimmed, upper-cased
\* input when it holds no delimiter (absent when empty).
C1_AfterLastOccurrence ==
    (Returned /\ ~IsNullMarker(arg.base_value)) =>
        LET t == str_upper(str_strip(arg.base_value)) IN
        ret.value = IF str_contains(t, US_DELIM)
                    THEN OptText(str_strip(AfterDelim(t, LastOccurrence(t))))
                    ELSE OptText(t)

\* C1 amended: the delimiter occurrences are taken from left to right
\* without overlap, and the result is the trimmed text after the last
\* occurrence so counted ('A-US-US-B' gives 'US-B', not 'B').
C1_AfterLastCounted ==
    (Returned /\ ~IsNullMarker(arg.base_value)) =>
        LET t == str_upper(str_strip(arg.base_value)) IN
        ret.value = IF str_contains(t, US_DELIM)
                    THEN OptText(str_strip(AfterDelim(t, LastCounted(t))))
                    ELSE OptText(t)

\* C1 witness: the normalizer has returned the last split segment of an
\* input whose delimiter occurrences overlap
C1_Witness ==
    /\ Returned
    /\ arg.base_value = <<"a">> \o US_DELIM \o <<"U","S","-">>
    /\ OccursAt(str_upper(arg.base_value), US_DELIM, 2)
    /\ OccursAt(str_upper(arg.base_value), US_DELIM, 5)
    /\ ret.value = <<"U","S","-">>

\* C2 as stated: the empty input and every input equal to 'nan' or 'none'
\* ignoring letter case give absent.
C2_NullMarkersAbsent ==
    (Returned /\ IsNullMarker(arg.base_value)) => ret.value = None

\* C27 as stated: a name the normalizer returns is returned unchanged when
\* it is given to the normalizer again.
C27_Idempotent ==
    (Returned /\ ret.value # None) => extract_base_name(ret.value) = ret.value

\* C27 amended: the same for every name but 'NAN' and 'NONE'; these two the
\* normalizer returns (for 'A-US-NAN', and for 'nan') and treats as absent
\* when it is given them.
C27_IdempotentButMarkers ==
    (Returned /\ ret.value # None) =>
        extract_base_name(ret.value)
            = IF ret.value \in {NAN_STR, NONE_STR} THEN None ELSE ret.value

\* C27 witness: the normalizer has returned 'NAN' as the name of 'LY-US-NAN'
C27_Witness ==
    /\ Returned
    /\ arg.base_value = <<"L","Y">> \o US_DELIM \o NAN_STR
    /\ ret.value = NAN_STR
    /\ extract_base_name(ret.value) = None

-----------------------------------------------------------------------------
(* Properties of the base-name index, checked under SpecIndex.             *)

\* the build step has run on a frame that has a Base Column
Built ==
    /\ arg.fn = "update_base_mapping"
    /\ ret.returned
    /\ first_base_col(arg.df.columns) # None

\* the trimmed, upper-cased Base Column values of a frame that are not
\* null-markers (empty, NAN, NONE)
RawBaseValues(frame) ==
    LET p == ColPos(frame, first_base_col(frame.columns)) IN
    { str_upper(str_strip(astype_str(frame.rows[i].cells[p]))) : i \in 1..Len(frame.rows) }
        \ { <<>>, NAN_STR, NONE_STR }

ListSet(list) == { list[i] : i \in 1..Len(list) }
NoDuplicates(list) ==
    \A i, j \in 1..Len(list) : i # j => list[i] # list[j]

\* the values V are spread over the member lists of mapping m: each in
\* exactly one list, the lists holding nothing else and no duplicate
Partitions(m, V) ==
    /\ \A v \in V : Cardinality({ i \in 1..Len(m) : InList(v, m[i].value) }) = 1
    /\ UNION { ListSet(m[i].value) : i \in 1..Len(m) } = V
    /\ \A i \in 1..Len(m) : NoDuplicates(m[i].value)

\* C3 as stated: after the build every trimmed, upper-cased Base Column
\* value that is not a null-marker is in exactly one member list, the union
\* of the member lists is the set of those values, and no list has a
\* duplicate.
C3_AllValuesGrouped ==
    Built => Partitions(ret.value.base_name_mapping, RawBaseValues(arg.df))

\* C3 amended: the same for the values whose canonical base name is not
\* absent; a value with nothing after its last delimiter ('A-US-') is in no
\* group.
C3_NamedValuesGrouped ==
    Built => Partitions(ret.value.base_name_mapping,
                        { v \in RawBaseValues(arg.df) : extract_base_name(v) # None })

\* C3 witness: built from two values of one group, given in different letter
\* case, and a value without a name
C3_Witness ==
    /\ Built
    /\ Len(arg.df.rows) = 3
    /\ RawBaseValues(arg.df) = { <<"1","-","U","S","-","A","A">>, <<"2","-","U","S","-","A","A">>, <<"A","-","U","S","-">> }
    /\ ret.value.base_name_mapping = <<[key |-> <<"A","A">>, value |-> <<<<"1","-","U","S","-","A","A">>, <<"2","-","U","S","-","A","A">>>>]>>

\* C4: in a mapping the build step produced every key has at least one
\* member and every member normalizes to the key it is filed under.
C4_MembersNormalizeToKey ==
    Built =>
        LET m == ret.value.base_name_mapping IN
        \A i \in 1..Len(m) :
            /\ Len(m[i].value) > 0
            /\ \A j \in 1..Len(m[i].value) : extract_base_name(m[i].value[j]) = m[i].key

\* C4 witness: a mapping of two groups, one with two members
C4_Witness ==
    /\ Built
    /\ Len(ret.value.base_name_mapping) = 2
    /\ \E i \in 1..2 : Len(ret.value.base_name_mapping[i].value) = 2
    /\ \E i \in 1..2 : ret.value.base_name_mapping[i].key = <<"X">>

-----------------------------------------------------------------------------
(* Properties of the statistics, checked under SpecStats.                  *)

\* the lower-cased status text of row i of a frame
StatusOf(data, col, i) ==
    str_lower(astype_str(data.rows[i].cells[ColPos(data, col)]))

HasRowsAndColumn(data, col) ==
    ~data.none /\ Len(data.rows) > 0 /\ InList(col, data.columns)

CountRows(data, P(_)) == Cardinality({ i \in 1..Len(data.rows) : P(i) })

StatsReturned == arg.fn = "calculate_statistics" /\ ret.returned
BaseStatsReturned == arg.fn = "calculate_base_statistics" /\ ret.returned

\* C7: for a non-empty row set with the status column present, total is the
\* number of rows, not_approved the rows containing 'not approved', approved
\* the rows containing 'approved' but not 'not approved', and not_in_time the
\* rows containing 'not in time', whatever else they contain.
C7_CountsByPredicate ==
    (StatsReturned /\ HasRowsAndColumn(arg.data, arg.checker_col)) =>
        LET st(i) == StatusOf(arg.data, arg.checker_col, i)
            IsNotApproved(i) == str_contains(st(i), NOT_APPROVED)
            IsApproved(i) == str_contains(st(i), APPROVED) /\ ~IsNotApproved(i)
            IsNotInTime(i) == str_contains(st(i), NOT_IN_TIME)
        IN  /\ ret.value.total = Len(arg.data.rows)
            /\ ret.value.not_approved = CountRows(arg.data, IsNotApproved)
            /\ ret.value.approved = CountRows(arg.data, IsApproved)
            /\ ret.value.not_in_time = CountRows(arg.data, IsNotInTime)

\* C7 witness: 'Approved but not in time' counted as approved and as not in
\* time, next to a 'Not Approved' row
C7_Witness ==
    /\ StatsReturned
    /\ HasRowsAndColumn(arg.data, arg.checker_col)
    /\ Len(arg.data.rows) = 2
    /\ arg.data.rows[1].cells[2] = <<"A","p","p","r","o","v","e","d"," ","b","u","t"," ","n","o","t"," ","i","n"," ","t","i","m","e">>
    /\ arg.data.rows[2].cells[2] = <<"N","o","t"," ","A","p","p","r","o","v","e","d">>
    /\ ret.value = [approved |-> 1, not_approved |-> 1, not_in_time |-> 1, total |-> 2]

\* C8: no row is counted both as approved and as not approved: in every
\* snapshot of calculate_statistics and calculate_base_statistics
\* approved + not_approved <= total, and rows whose status contains
\* 'not approved' count as not approved only.
C8_ApprovedExclusive ==
    ((StatsReturned \/ BaseStatsReturned) =>
        ret.value.approved + ret.value.not_approved <= ret.value.total)
    /\ ((/\ StatsReturned \/ BaseStatsReturned
         /\ HasRowsAndColumn(arg.data, arg.checker_col)
         /\ (\A i \in 1..Len(arg.data.rows) :
                str_contains(StatusOf(arg.data, arg.checker_col, i), NOT_APPROVED)))
        => (ret.value.approved = 0 /\ ret.value.not_approved = ret.value.total))

\* C8 witness: the snapshot of a group whose two rows read 'Not Approved'
\* and 'NOT APPROVED, Not In Time'
C8_Witness ==
    /\ BaseStatsReturned
    /\ Len(arg.data.rows) = 2
    /\ arg.data.rows[1].cells[2] = <<"N","o","t"," ","A","p","p","r","o","v","e","d">>
    /\ arg.data.rows[2].cells[2] = <<"N","O","T"," ","A","P","P","R","O","V","E","D",","," ","N","o","t"," ","I","n"," ","T","i","m","e">>
    /\ ret.value = [approved |-> 0, not_approved |-> 2, not_in_time |-> 1, total |-> 2]

\* C9 as stated: in every snapshot approved + not_approved + not_in_time
\* is at most total.
C9_ThreeBucketsWithinTotal ==
    (StatsReturned \/ BaseStatsReturned) =>
        ret.value.approved + ret.value.not_approved + ret.value.not_in_time
            <= ret.value.total

\* C9 amended: not_in_time is at most total, and the three counts add up to
\* total less the rows matching no predicate plus the rows that contain
\* 'not in time' together with 'approved' (counted twice).
C9_BucketsOverlapOnNotInTime ==
    /\ (StatsReturned \/ BaseStatsReturned) => ret.value.not_in_time <= ret.value.total
    /\ (StatsReturned /\ HasRowsAndColumn(arg.data, arg.checker_col)) =>
        LET st(i) == StatusOf(arg.data, arg.checker_col, i)
            Unclassified(i) == /\ ~str_contains(st(i), APPROVED)
                               /\ ~str_contains(st(i), NOT_IN_TIME)
            Twice(i) == /\ str_contains(st(i), APPROVED)
                        /\ str_contains(st(i), NOT_IN_TIME)
        IN  ret.value.approved + ret.value.not_approved + ret.value.not_in_time
                = ret.value.total - CountRows(arg.data, Unclassified)
                    + CountRows(arg.data, Twice)

\* C9 witness: one row counted twice and one unclassified row
C9_Witness ==
    /\ StatsReturned
    /\ HasRowsAndColumn(arg.data, arg.checker_col)
    /\ Len(arg.data.rows) = 2
    /\ arg.data.rows[1].cells[2] = <<"A","p","p","r","o","v","e","d"," ","b","u","t"," ","n","o","t"," ","i","n"," ","t","i","m","e">>
    /\ arg.data.rows[2].cells[2] = <<"P","e","n","d","i","n","g">>
    /\ ret.value = [approved |-> 1, not_approved |-> 0, not_in_time |-> 1, total |-> 2]

\* no status column: no name matches 'checker'/'check' and the fallback names
\* are no columns either
NoStatusColumn(frame) ==
    /\ \A i \in 1..Len(frame.columns) : str_lower(frame.columns[i]) \notin CHECKER_NAMES
    /\ ~InList(<<"C","h","e","c","k","e","r">>, frame.columns)
    /\ ~InList(<<"c","h","e","c","k","e","r">>, frame.columns)

\* C10: calculate_statistics returns the all-zero snapshot when the row set
\* is absent or empty or the status column is no column of the data, rows or
\* not; without any status column every count of the Analytics page is 0.
C10_ZeroSnapshot ==
    /\ (StatsReturned /\ ~HasRowsAndColumn(arg.data, arg.checker_col)) =>
            /\ ret.value.approved = 0
            /\ ret.value.not_approved = 0
            /\ ret.value.not_in_time = 0
            /\ ret.value.total = 0
    /\ (arg.fn = "analytics_page" /\ ret.returned /\ NoStatusColumn(arg.original_df)) =>
            /\ ret.value.approved = 0
            /\ ret.value.not_approved = 0
            /\ ret.value.not_in_time = 0
            /\ ret.value.total = 0
            /\ ret.value.approved_pct.num = 0
            /\ ret.value.not_approved_pct.num = 0
            /\ ret.value.not_in_time_pct.num = 0

\* C10 witness: calculate_statistics has returned for two rows and a status
\* column the data does not have
C10_Witness ==
    /\ StatsReturned
    /\ Len(arg.data.rows) = 2
    /\ ~InList(arg.checker_col, arg.data.columns)
    /\ ret.value.total = 0

\* the rows of a frame whose trimmed, upper-cased cell in column col is one
\* of the members
GroupRows(data, col, members) ==
    DataFrame(data.columns,
              SelectSeq(data.rows,
                  LAMBDA r : InList(str_upper(str_strip(astype_str(r.cells[ColPos(data, col)]))),
                                    members)))

\* the member list of a name in a mapping, empty when the name is no key
MembersOf(mapping, name) ==
    IF \E i \in 1..Len(mapping) : mapping[i].key = name
    THEN mapping[CHOOSE i \in 1..Len(mapping) : mapping[i].key = name].value
    ELSE <<>>

-----------------------------------------------------------------------------
(* Properties of the session, checked under Spec.                          *)

\* a file has been loaded: the session holds a canonical dataset
Loaded == ~original_df.none

\* the mapping built from nothing for a frame: empty without a Base Column
FreshMapping(frame) ==
    IF first_base_col(frame.columns) = None
    THEN <<>>
    ELSE update_base_mapping(frame, <<>>, <<>>).base_name_mapping

\* C5: in every session state after a file load the stored Base-Name Mapping
\* is the mapping freshly built from the canonical dataset; no load leaves
\* the mapping of an earlier dataset, or no mapping, in place.
C5_MappingFollowsDataset ==
    Loaded => base_name_mapping = FreshMapping(original_df)

\* C6: after a dataset without a Base Column has been loaded the Base-Name
\* Mapping of the session is empty, whatever was loaded before.
C6_NoBaseColumnNoMapping ==
    (Loaded /\ first_base_col(original_df.columns) = None) => Len(base_name_mapping) = 0

\* the percentage of count in total, 0 when total is 0
Pct(count, total) ==
    IF total > 0 THEN [num |-> count * 100, den |-> total] ELSE [num |-> 0, den |-> 1]

\* the three percentages of a group of metrics are those of its counts
PercentagesGuarded(m) ==
    /\ m.approved_pct = Pct(m.approved, m.total)
    /\ m.not_approved_pct = Pct(m.not_approved, m.total)
    /\ m.not_in_time_pct = Pct(m.not_in_time, m.total)

\* the Bases page shows its expanders
ExpandersShown ==
    /\ view.page = "Bases"
    /\ "stats" \in DOMAIN view

\* the Combine page shows metrics
CombineMetricsShown ==
    /\ view.page = "Combine"
    /\ view.exception = "none"
    /\ ~view.combined.none
    /\ ~view.info

\* C12: every percentage shown on the Analytics, Combine and Bases pages is
\* count / total * 100 when total > 0 and 0 when total = 0; no division by
\* zero happens, also for a dataset without rows or without status column.
C12_PercentagesGuarded ==
    /\ view.page = "Analytics" => PercentagesGuarded(view)
    /\ CombineMetricsShown => PercentagesGuarded(view.stats)
    /\ ExpandersShown => \A e \in view.stats : PercentagesGuarded(e.stats)

\* C12 witness: the Analytics page of a dataset that has the status column
\* and no rows
C12_Witness ==
    /\ view.page = "Analytics"
    /\ Loaded
    /\ df_len(original_df) = 0
    /\ in_columns(T_Checker, original_df)
    /\ view.total = 0
    /\ view.approved_pct = [num |-> 0, den |-> 1]

\* the Data View page shows a table, no status filter and no search term
\* being set
ShowAllUnsearched ==
    /\ view.page = "Data View"
    /\ view.exception = "none"
    /\ status_filter = "Show All"
    /\ Len(data_search) = 0

\* C13 as stated: with 'Show All' and no search term the Data View page
\* shows the canonical dataset, row for row, with the same columns.
C13_ShowAllShowsCanonical ==
    ShowAllUnsearched => view.shown = original_df

\* C13 amended: it shows the working dataset, row for row, with the same
\* columns; that is the canonical dataset unless a base-group filter is in
\* force.
C13_ShowAllShowsWorking ==
    ShowAllUnsearched =>
        /\ view.shown = df
        /\ (df = original_df => view.shown = original_df)

\* C13 witness: 'Show All' over a working dataset that a base-group filter
\* has narrowed
C13_Witness ==
    /\ ShowAllUnsearched
    /\ df_len(df) > 0
    /\ df_len(df) < df_len(original_df)
    /\ view.shown = df

\* the Data View page shows a table under status filter X, no search term
\* being set
StatusFiltered ==
    /\ view.page = "Data View"
    /\ view.exception = "none"
    /\ status_filter # "Show All"
    /\ Len(data_search) = 0

\* the count of calculate_statistics that belongs to status filter X
StatusCount(stats, X) ==
    IF X = "Approved" THEN stats.approved
    ELSE IF X = "Not Approved" THEN stats.not_approved
    ELSE stats.not_in_time

\* C14: under status filter X the rows kept are the rows that satisfy the
\* predicate the aggregator uses for X, so the number of rows kept is the X
\* count of calculate_statistics on the dataset being filtered.
C14_KeptEqualsCount ==
    StatusFiltered =>
        df_len(view.shown) =
            StatusCount(calculate_statistics(df, find_columns(df).checker_col),
                        status_filter)

\* the rows of a frame in which the text of some cell contains the term as
\* a literal substring, ignoring letter case
LiteralRows(frame, term) ==
    DataFrame(frame.columns,
              SelectSeq(frame.rows,
                  LAMBDA r : \E j \in 1..Len(frame.columns) :
                                str_contains(str_lower(astype_str(r.cells[j])),
                                             str_lower(term))))

\* C15: free-text search with a non-empty term keeps exactly the rows in
\* which some column's text contains the term as a literal substring,
\* ignoring letter case, whatever the term, punctuation included.
C15_SearchIsLiteral ==
    /\ (view.page = "Data View" /\ Len(data_search) > 0) =>
          /\ view.exception = "none"
          /\ view.shown =
                LiteralRows(apply_status_filter(df, status_filter,
                                                find_columns(df).checker_col),
                            data_search)
    /\ view.page = "Search" =>
          /\ view.exception = "none"
          /\ view.searched => view.results = LiteralRows(original_df, search_input)

\* the member lists of the names of a selection, as one set
RECURSIVE SelectedMembers(_, _)
SelectedMembers(mapping, selection) ==
    IF Len(selection) = 0
    THEN <<>>
    ELSE MembersOf(mapping, Head(selection)) \o SelectedMembers(mapping, Tail(selection))

\* C16: Apply Filter with a non-empty selection of base names leaves as the
\* working dataset exactly the canonical rows whose trimmed, upper-cased Base
\* cell is in the member list of a selected name, whatever the working
\* dataset was before.
C16_ApplyFilterSelectsGroups ==
    (clicked = "Apply Filter" /\ Len(base_selector.value) > 0) =>
        df = GroupRows(original_df, find_columns(original_df).base_col,
                       SelectedMembers(base_name_mapping, base_selector.value))

\* the text of the cell of a row in a column contains the fragment as a
\* literal substring, ignoring letter case
CellContains(frame, col, r, fragment) ==
    str_contains(str_lower(astype_str(r.cells[ColPos(frame, col)])), str_lower(fragment))

\* the rows of the single-fragment filter
FragmentRows(frame, col, fragment) ==
    { r \in ListSet(frame.rows) : CellContains(frame, col, r, fragment) }

\* the Combine button has been pressed with two names and a Base Column
Combined ==
    /\ clicked = "Combine"
    /\ view.page = "Combine"
    /\ Len(base1) > 0
    /\ Len(base2) > 0
    /\ find_columns(df).base_col # None

\* C17: the Combine filter with fragments f1 and f2 returns the union of the
\* rows of the canonical dataset whose raw Base cell contains f1, ignoring
\* case, and of those whose cell contains f2; swapping f1 and f2 gives the
\* same rows.
C17_CombineIsUnion ==
    Combined =>
        /\ view.exception = "none"
        /\ ListSet(view.combined.rows) =
              FragmentRows(original_df, find_columns(df).base_col, base1)
                \cup FragmentRows(original_df, find_columns(df).base_col, base2)

\* an interaction that offers no other file and selects no other sheets:
\* a status filter change, a navigation, a search, Combine, a base selection,
\* Apply Filter or Reset Filter
NoLoadStep ==
    /\ uploaded_file' = uploaded_file
    /\ sheet_selector' = sheet_selector

\* C18: changing the status filter, searching, combining, Apply Filter and
\* Reset Filter leave the canonical dataset and the Base-Name Mapping as they
\* are; only a file load changes them.
C18_FiltersLeaveCanonical ==
    [][ NoLoadStep =>
            /\ original_df' = original_df
            /\ base_name_mapping' = base_name_mapping ]_vars

\* C19: whenever a dataset is loaded the working dataset has the columns of
\* the canonical dataset and each of its rows is a row of the canonical
\* dataset, after any loads, filters and navigations.
C19_WorkingIsRowSubset ==
    /\ df.none <=> original_df.none
    /\ Loaded =>
          /\ df.columns = original_df.columns
          /\ \A i \in 1..Len(df.rows) :
                \E j \in 1..Len(original_df.rows) : df.rows[i] = original_df.rows[j]

\* C19 witness: after Apply Filter the working dataset has some but not all
\* rows of the canonical dataset
C19_Witness ==
    /\ Loaded
    /\ clicked = "Apply Filter"
    /\ df_len(df) > 0
    /\ df_len(df) < df_len(original_df)

\* C20: the base column that the pages read (base-group filtering, Combine,
\* per-group statistics) is the first column with a base name, the column
\* the mapping was built from at load time, also when several columns match.
C20_OneBaseColumn ==
    Loaded => find_columns(df).base_col = first_base_col(original_df.columns)

\* the display of a page that only warns: no result rows, no statistics
OnlyWarningSearch(v) ==
    /\ v.exception = "none"
    /\ v.warning
    /\ ~v.searched
    /\ v.results = NoneDF

OnlyWarningCombine(v) ==
    /\ v.exception = "none"
    /\ v.warning
    /\ ~v.info
    /\ v.combined = NoneDF
    /\ v.stats = base_metrics(EmptyDict)

\* C21: a press of Search with an empty term, or of Combine with an empty
\* first or second name, filters nothing: the page shows the warning only (no
\* result rows, no statistics) and the canonical and the working dataset stay
\* as they were.
C21_EmptyInputOnlyWarns ==
    [][ /\ (clicked' = "Search" /\ view'.page = "Search" /\ search_input' = <<>>)
            => /\ OnlyWarningSearch(view')
               /\ df' = df
               /\ original_df' = original_df
        /\ (clicked' = "Combine" /\ view'.page = "Combine"
                /\ (base1' = <<>> \/ base2' = <<>>))
            => /\ OnlyWarningCombine(view')
               /\ df' = df
               /\ original_df' = original_df ]_vars

\* C21 witness: Combine was pressed with the first name empty and the second
\* name typed, over a dataset with a base column
C21_Witness ==
    /\ clicked = "Combine"
    /\ view.page = "Combine"
    /\ base1 = <<>>
    /\ base2 # <<>>
    /\ find_columns(df).base_col # None
    /\ df_len(original_df) > 0
    /\ view.warning

\* the dataset of the worked example, its mapping and its two snapshots
ExampleFrame == CsvThreeRows.sheets[1]

ExampleMapping ==
    << [key |-> <<"A","A">>,
        value |-> << <<"1","-","U","S","-","A","A">>, <<"2","-","U","S","-","A","A">> >>],
       [key |-> <<"X">>, value |-> << <<"X">> >>] >>

Snapshot(a, n, t, all) ==
    [approved |-> a, not_approved |-> n, not_in_time |-> t, total |-> all]

\* C22: once the example dataset is loaded, from whichever kind of file, the
\* mapping is {AA: [1-US-AA, 2-US-AA], X: [X]}, the overall snapshot is
\* 1/1/1 of 3 and the snapshot of group AA is 1/1/0 of 2.
C22_WorkedExample ==
    (Loaded /\ original_df = ExampleFrame) =>
        /\ base_name_mapping = ExampleMapping
        /\ calculate_statistics(original_df, find_columns(df).checker_col)
              = Snapshot(1, 1, 1, 3)
        /\ calculate_base_statistics(original_df, <<"A","A">>, base_name_mapping,
                                     find_columns(df).base_col,
                                     find_columns(df).checker_col)
              = Snapshot(1, 1, 0, 2)

\* a turn that follows an Apply Filter with a non-empty selection and is
\* itself neither a filter button nor a change of the offered file
TurnAfterApplyFilter ==
    /\ clicked = "Apply Filter"
    /\ Len(base_selector.value) > 0
    /\ clicked' = "none"
    /\ NoLoadStep

\* C23: on the turn that follows an Apply Filter with a non-empty selection,
\* with the same file still offered in the sidebar, the working dataset is
\* the subset of the canonical rows that the selection filters, and it stays
\* so until Reset Filter, another Apply Filter or a load.
C23_FilterPersists ==
    [][ TurnAfterApplyFilter =>
            df' = GroupRows(original_df, find_columns(original_df).base_col,
                            SelectedMembers(base_name_mapping, base_selector.value)) ]_vars

\* the session and the widgets with the working dataset and the status
\* filter taken away: the working frame is the canonical one, the filter is
\* 'Show All'
CanonicalSession == Session(original_df, original_df, base_name_mapping, selected_bases)
UnfilteredWidgets == [Widgets EXCEPT !.status_filter = "Show All"]

\* the names whose snapshots the Bases page shows
DisplayBases ==
    IF Len(base_selector.value) > 0
    THEN base_selector.value
    ELSE dict_keys(base_name_mapping)

\* C26: what the Analytics page, the snapshots of the Bases page, the Search
\* page and the Combine page show is what they show in the session that has
\* the same canonical dataset, mapping and page inputs but no base-group
\* filter applied and the status filter 'Show All'.
C26_PagesReadCanonical ==
    /\ view.page = "Analytics" =>
          view = analytics_page(original_df, find_columns(original_df).checker_col)
    /\ view.page = "Search" =>
          view = search_page(CanonicalSession, UnfilteredWidgets, clicked).view
    /\ view.page = "Combine" =>
          view = combine_page(CanonicalSession, UnfilteredWidgets,
                              find_columns(original_df), clicked).view
    /\ (view.page = "Bases" /\ "stats" \in DOMAIN view) =>
          view.stats = base_statistics_view(CanonicalSession,
                           find_columns(original_df).base_col,
                           find_columns(original_df).checker_col, DisplayBases)

\* C26 witness: the Search page shows results while a base-group filter is
\* applied (the working dataset has fewer rows than the canonical one) and a
\* status filter is selected
C26_Witness ==
    /\ view.page = "Search"
    /\ clicked = "Search"
    /\ view.exception = "none"
    /\ view.searched
    /\ df_len(view.results) > df_len(df)
    /\ df_len(df) < df_len(original_df)
    /\ status_filter # "Show All"

\* a name of the Combine page that is matched as it is typed: no blank at
\* its ends, no character that a regular expression reads as an operator
PlainFragment(t) ==
    /\ Len(t) > 0
    /\ str_strip(t) = t
    /\ \A i \in 1..Len(t) : t[i] \notin {".", "(", ")", "*", "+", "?", "[", "]", "\\", "^", "$", "|"}

\* C28: for two non-empty names each row that Combine returns has a Base
\* cell that is not missing and not empty and that contains one of the names.
C28_CombineSkipsNullCells ==
    (Combined /\ PlainFragment(base1) /\ PlainFragment(base2)
        /\ view.exception = "none") =>
        \A i \in 1..Len(view.combined.rows) :
            LET cell == view.combined.rows[i].cells[
                            ColPos(original_df, find_columns(df).base_col)]
            IN  /\ cell # NaN
                /\ Len(cell) > 0
                /\ \/ str_contains(str_lower(cell), str_lower(base1))
                   \/ str_contains(str_lower(cell), str_lower(base2))

-----------------------------------------------------------------------------
(* Rows of one raw value, checked under SpecIndex: the mapping the build   *)
(* step returns, and the group statistics and the Apply Filter of the      *)
(* Bases page over the frame it was built from.                            *)

\* the Base cell of row i of the frame the mapping was built from
BaseCell(i) ==
    arg.df.rows[i].cells[ColPos(arg.df, first_base_col(arg.df.columns))]

\* two rows whose Base cells are texts that differ in letter case or in
\* surrounding whitespace at most
SameRawValue(i, j) ==
    /\ i # j
    /\ BaseCell(i) # NaN
    /\ BaseCell(j) # NaN
    /\ str_lower(str_strip(BaseCell(i))) = str_lower(str_strip(BaseCell(j)))

\* the members of the mapping that are the raw value of row i or of row j
RawValuesOf(m, i, j) ==
    { v \in UNION { ListSet(m[k].value) : k \in 1..Len(m) } :
        \/ str_lower(v) = str_lower(str_strip(BaseCell(i)))
        \/ str_lower(v) = str_lower(str_strip(BaseCell(j))) }

\* the total of the snapshot of a group over the two rows alone
PairTotal(m, name, i, j) ==
    calculate_base_statistics(DataFrame(arg.df.columns, <<arg.df.rows[i], arg.df.rows[j]>>),
                              name, m, first_base_col(arg.df.columns),
                              find_columns(arg.df).checker_col).total

\* the working frame after Apply Filter with the selection, the frame being
\* the canonical one
AppliedFilter(m, selection) ==
    bases_page(Session(arg.df, arg.df, m, dict_keys(m)), Widgets,
               [rendered |-> TRUE, options |-> dict_keys(m), value |-> selection],
               first_base_col(arg.df.columns), find_columns(arg.df).checker_col,
               "Apply Filter").S.df

SameGroup(m, i, j) ==
    /\ Cardinality(RawValuesOf(m, i, j)) <= 1
    /\ (extract_base_name(str_upper(str_strip(BaseCell(i)))) # None
          /\ ~IsNullMarker(str_strip(BaseCell(i))))
            => Cardinality(RawValuesOf(m, i, j)) = 1
    /\ \A k \in 1..Len(m) :
          /\ PairTotal(m, m[k].key, i, j) \in {0, 2}
          /\ (RawValuesOf(m, i, j) \subseteq ListSet(m[k].value)
                /\ RawValuesOf(m, i, j) # {}
                /\ in_columns(find_columns(arg.df).checker_col, arg.df))
                => PairTotal(m, m[k].key, i, j) = 2
    /\ \A sel \in ListsOver(ListSet(dict_keys(m))) :
          Len(sel) > 0 =>
              (InList(arg.df.rows[i], AppliedFilter(m, sel).rows)
                  <=> InList(arg.df.rows[j], AppliedFilter(m, sel).rows))

-----------------------------------------------------------------------------
(* Properties of the login gate, checked under SpecLogin.                  *)

\* nothing of the application has run: no dataset field, no file, the login
\* page or no page at all
NothingRun ==
    /\ ~initialised
    /\ df = NoneDF
    /\ original_df = NoneDF
    /\ base_name_mapping = <<>>
    /\ selected_bases = <<>>
    /\ uploaded_file = NoFile
    /\ ~base_selector.rendered
    /\ view.page \in {"Connecting", "Login"}

\* C25: with a launch password the session becomes authenticated by a Login
\* press with exactly the password in the box, and by that only; while it is
\* not authenticated no dataset field exists and neither sidebar nor page has
\* run; an authenticated session stays authenticated; without a launch
\* password the first run authenticates.
C25_LoginGate ==
    /\ [](~authenticated => NothingRun)
    /\ [][ /\ authenticated => authenticated'
           /\ (~authenticated /\ authenticated' /\ APP_PASSWORD # None)
                => (clicked' = "Login" /\ password_input = APP_PASSWORD)
           /\ (~authenticated /\ APP_PASSWORD # None /\ clicked' = "Login"
                 /\ password_input = APP_PASSWORD)
                => authenticated'
           /\ (view.page = "Connecting" /\ APP_PASSWORD = None) => authenticated'
           /\ APP_PASSWORD' = APP_PASSWORD ]_vars

\* C25 witness: a session of a server with a password, authenticated, with a
\* dataset loaded
C25_Witness ==
    /\ APP_PASSWORD # None
    /\ authenticated
    /\ initialised
    /\ ~df.none
    /\ view.page = "Data View"

\* ---------------------------------------------------------------------
\* The Test Card page: the values pasted and the fields they land in
\* ---------------------------------------------------------------------

\* the value the selected row holds for a field of the form, as a list of
\* at most one text
RowValueFor(field) ==
    CASE field = "card number" ->
             value_of(df, view.selected_row,
                      IF first_col_in(df.columns, CARD_NUMBER_NAMES) # None
                      THEN first_col_in(df.columns, CARD_NUMBER_NAMES)
                      ELSE first_col_in(df.columns, NUMBER_NAMES))
      [] field = "expiration" ->
             value_of(df, view.selected_row, first_col_in(df.columns, EXPIRE_NAMES))
      [] field = "cvv" ->
             value_of(df, view.selected_row, first_col_in(df.columns, CVV_NAMES))
      [] field = "cardholder name" -> << CARDHOLDER_NAME >>
      [] field = "zip" ->
             value_of(df, view.selected_row, first_col_in(df.columns, ZIP_NAMES))
      [] OTHER -> <<>>

\* the Test Card button has run the filling of the form
FormFilled ==
    /\ view.page = "Test Card"
    /\ "filled" \in DOMAIN view
    /\ view.tested

\* C29: whatever columns and values the selected row has or lacks, every
\* value the Test Card automation pastes lands in the field of its own kind:
\* the card number field receives the row's card number, the expiration field
\* its expiration date, the CVV field its CVV, the cardholder field the name,
\* the zip field the zip code
C29_ValuesLandInTheirFields ==
    FormFilled =>
        \A i \in DOMAIN view.filled :
            << view.filled[i].value >> = RowValueFor(view.filled[i].field)

\* C30: with a dataset loaded and no automation library, the Test Card page
\* of either application file raises nothing and shows the 'not installed'
\* message
C30_TestCardPageNeverFails ==
    (/\ ~df.none
     /\ view.page = "Test Card"
     /\ ~KEYBOARD_AUTOMATION_AVAILABLE)
        => (/\ view.exception = "none"
            /\ ~view.installed)

====
